---- MODULE Spec2Model ----
(***************************************************************************)
(* A model of the loopmessages SDK core: the retry engine                  *)
(* (src/utils/retry.ts), the HTTP client with its error classifier         *)
(* (src/utils/LoopHttpClient.ts), the status poller                        *)
(* (MessageStatusChecker.waitForStatus, alone and with calls side by       *)
(* side), the webhook verifier (WebhookHandler.parseWebhook) behind the    *)
(* LoopSdk facade and its constructor and with listeners of its own, the   *)
(* Express middleware (createWebhookMiddleware, handleLoopWebhook), the    *)
(* conversation service (LoopMessageConversationService.sendMessage and    *)
(* its status tracking) and the message service                            *)
(* (LoopMessageService.sendLoopMessage).                                   *)
(***************************************************************************)
EXTENDS Integers, Sequences, FiniteSets, TLC

VARIABLES
    rpc,           \* retryWithExponentialBackoff: "idle" | "attempt" | "backoff" | "done"
    ropts,         \* the options the running retry call was given
    currentRetry,  \* retry.ts: let currentRetry
    rlog,          \* what the retry call did, in order: op / onRetry / delay / onError
    lastError,     \* the error thrown by the latest invocation of the operation
    rresult,       \* how the retry call settled
    axiosBuild,    \* which AxiosError shape the installed transport produces
    hpc,           \* LoopHttpClient.get/post: "idle" | "direct" | "retry" | "done"
    hreq,          \* the get/post call in progress: method and config
    requests,      \* how many requests the client handed to the transport
    responded,     \* the response bodies the transport answered with, in order
    hresult,       \* how the get/post call settled
    wpc,           \* waitForStatus: "idle" | "checking" | "sleeping" | "final" | "done"
    wargs,         \* messageId, targetStatuses and options of the waitForStatus call
    attempts,      \* waitForStatus: let attempts
    lastStatus,    \* waitForStatus: let lastStatus ("null" before the first response)
    startTime,     \* waitForStatus: const startTime = Date.now()
    now,           \* Date.now()
    wlog,          \* the notifications the status checker emitted, in order
    wresult,       \* how the waitForStatus call settled
    sdk,           \* the LoopSdk: whether its constructor ran, and its conversation service
    secretKey,     \* LoopSdkConfig.webhook.secretKey ("" when not configured)
    gotMiddleware, \* how the latest LoopSdk.getWebhookMiddleware() call ended
    sdkListeners,  \* the event names a caller subscribed to on the LoopSdk
    whlog,         \* what the latest WebhookHandler.parseWebhook did, in order
    sdklog,        \* the notifications emitted on the LoopSdk by the latest operation
    received,      \* the notifications delivered to the caller's LoopSdk listeners
    whcall,        \* body and signature of the latest parseWebhook call
    whresult,      \* how the latest parseWebhook call ended
    subscriber,    \* the listener a caller registered on the WebhookHandler itself
    spc,           \* sendLoopMessage: "idle" | "posting" | "done"
    svia,          \* the method of the message service the caller used
    sparams,       \* the params of the sendLoopMessage call
    slog,          \* the notifications the message service emitted, in order
    sresult,       \* how the sendLoopMessage call settled
    calls,         \* the waitForStatus calls running side by side on one checker
    mwOptions,     \* the options the Express middleware was created with
    mwreq,         \* the request the middleware is handling, or handled last
    res,           \* the Express response of that request
    mwlog,         \* what the middleware called for that request, in order
    mwpending,     \* the onWebhook callback suspended at an await, if any
    cpc,           \* conversation sendMessage: "idle" | "sending" | "waiting" | "done"
    convListener,  \* the 'error' listener on the conversation service, if any
    csend,         \* params and options of the conversation sendMessage call
    cmessage,      \* the outbound message the service stored in its thread
    convlog,       \* the notifications emitted on the conversation service, in order
    tracker,       \* trackMessageStatus: the polling interval, its timeout timer, checks in flight
    cresult        \* how the conversation sendMessage call settled

retryVars == <<rpc, ropts, currentRetry, rlog, lastError, rresult>>
httpVars == <<axiosBuild, hpc, hreq, requests, responded, hresult>>
waitVars == <<wpc, wargs, attempts, lastStatus, startTime, now, wlog, wresult>>
hookVars == <<sdk, secretKey, gotMiddleware, sdkListeners, whcall, whlog, sdklog, received,
              whresult, subscriber>>
sendVars == <<spc, svia, sparams, slog, sresult>>
concVars == <<calls>>
mwVars == <<mwOptions, mwreq, res, mwlog, mwpending>>
convVars == <<cpc, convListener, csend, cmessage, convlog, tracker, cresult>>
vars == <<rpc, ropts, currentRetry, rlog, lastError, rresult,
          axiosBuild, hpc, hreq, requests, responded, hresult,
          wpc, wargs, attempts, lastStatus, startTime, now, wlog, wresult,
          sdk, secretKey, gotMiddleware, sdkListeners, whcall, whlog, sdklog, received,
          whresult, subscriber,
          spc, svia, sparams, slog, sresult,
          calls, mwOptions, mwreq, res, mwlog, mwpending,
          cpc, convListener, csend, cmessage, convlog, tracker, cresult>>

----------------------------------------------------------------------------
(* JavaScript values that the code tests with ||, !== undefined, includes   *)

Undef == [t |-> "undef", n |-> 0, s |-> ""]
Num(n) == [t |-> "num", n |-> n, s |-> ""]
Str(s) == [t |-> "str", n |-> 0, s |-> s]

\* JavaScript truthiness of a number, string or undefined
Truthy(v) == (v.t = "num" /\ v.n # 0) \/ (v.t = "str" /\ v.s # "")

\* a || b
JsOr(a, b) == IF Truthy(a) THEN a ELSE b

RECURSIVE Pow2(_)
\* Math.pow(2, k)
Pow2(k) == IF k = 0 THEN 1 ELSE 2 * Pow2(k - 1)

----------------------------------------------------------------------------
(* Bounds of the model                                                      *)

\* the largest maxRetries a caller passes explicitly
MaxRetriesBound == 2

\* the largest maxAttempts a caller of waitForStatus passes
MaxAttemptsBound == 3

\* the longest a status check takes, and the latest a timer fires, in ms
MaxLatency == 1

\* how many status checks of the tracking interval are answered, and how
\* many of them are in flight at once
MaxPolls == 2
MaxInflight == 2

\* program constants
DefaultMaxRetries == 3
DefaultBaseDelay == 500
HttpDefaultMaxRetries == 3
HttpDefaultBaseDelay == 500

----------------------------------------------------------------------------
(* Errors.  One record shape for everything that can be thrown: a plain     *)
(* Error, an AxiosError and a LoopMessageError.                             *)

NoResponse == [has |-> FALSE, status |-> 0, dataMessage |-> Undef, dataCode |-> Undef]
Response(st, m, c) == [has |-> TRUE, status |-> st, dataMessage |-> m, dataCode |-> c]

\* `id` is the invocation of the operation that threw the error (0 for an
\* error object built by an error handler); `of` is the id of the error an
\* error handler built it from.
MkError(cls, name, code, status, message, cause, isAxios, response) ==
    [cls |-> cls, name |-> name, code |-> code, status |-> status,
     message |-> message, cause |-> cause, isAxios |-> isAxios,
     response |-> response, id |-> 0, of |-> 0]

NoError == MkError("none", "", Undef, Undef, Undef, Undef, FALSE, NoResponse)

\* new LoopMessageError({ message, code, cause })
LoopMessageError(message, code, cause) ==
    MkError("LoopMessageError", "LoopMessageError", code, Undef, message, cause,
            FALSE, NoResponse)

IsClassified(e) ==
    /\ e.cls = "LoopMessageError"
    /\ e.name = "LoopMessageError"
    /\ e.code.t = "num"
    /\ e.message.t = "str"
    /\ e.cause.t \in {"str", "undef"}

----------------------------------------------------------------------------
(* Retry engine: src/utils/retry.ts                                         *)

\* One entry of rlog.  k = "op": invocation number a of the operation;
\* k = "onRetry": onRetry(a, d, error e); k = "delay": setTimeout(resolve, d);
\* k = "onError": onError(error e).
Ev(k, a, d, e) == [k |-> k, a |-> a, d |-> d, e |-> e]

EventsOf(log, k) == SelectSeq(log, LAMBDA x: x.k = k)
Invocations(log) == Len(EventsOf(log, "op"))
Delays(log) == EventsOf(log, "delay")
OnRetryCalls(log) == EventsOf(log, "onRetry")

\* An option the caller left out
Absent == [given |-> FALSE, v |-> 0]
AbsentList == [given |-> FALSE, v |-> {}]
Given(v) == [given |-> TRUE, v |-> v]

\* The default non-retryable list of retryWithExponentialBackoff: []
DefaultNonRetryable == {}

\* const { maxRetries = 3, baseDelay = 500, nonRetryableErrors = [], ... } = options
MaxRetriesOf(o) == IF o.maxRetries.given THEN o.maxRetries.v ELSE DefaultMaxRetries
BaseDelayOf(o) == IF o.baseDelay.given THEN o.baseDelay.v ELSE DefaultBaseDelay
NonRetryableOf(o) ==
    IF o.nonRetryableErrors.given THEN o.nonRetryableErrors.v ELSE DefaultNonRetryable

isNonRetryableError_NameOnly(error, nonRetryableErrors) ==
    Str(error.name) \in nonRetryableErrors \/ Str(error.cls) \in nonRetryableErrors

\* function isNonRetryableError(error, nonRetryableErrors)
isNonRetryableError(error, nonRetryableErrors) ==
    LET errorCode == JsOr(error.code, error.status)
    IN  IF errorCode # Undef
        THEN errorCode \in nonRetryableErrors
        ELSE Str(error.name) \in nonRetryableErrors \/ Str(error.cls) \in nonRetryableErrors

BackoffDelay_Linear(baseDelay, retry) == baseDelay * (retry + 1)

\* const delay = baseDelay * Math.pow(2, currentRetry)
BackoffDelay(baseDelay, retry) == baseDelay * Pow2(retry)

RetriesExhausted_OffByOne(retry, maxRetries) == retry > maxRetries

\* if (currentRetry >= maxRetries)
RetriesExhausted(retry, maxRetries) == retry >= maxRetries

----------------------------------------------------------------------------
(* Error classifier: LoopHttpClient.handleRequestError                      *)

handleRequestError_TrustServer(error) ==
    LET status == IF error.response.has /\ error.response.status # 0
                  THEN error.response.status ELSE 500
        data == error.response
        built == LoopMessageError(JsOr(data.dataMessage, Str("API request failed")),
                                  JsOr(data.dataCode, Num(status)), error.message)
    IN  [built EXCEPT !.of = error.id]

\* private handleRequestError(error: Error | AxiosError): never
\* The value is the LoopMessageError it throws.
handleRequestError(error) ==
    LET status == IF error.response.has /\ error.response.status # 0
                  THEN error.response.status ELSE 500
        data == error.response
        built ==
            IF error.isAxios
            THEN IF status = 404
                 THEN LoopMessageError(Str("Resource not found"), Num(404),
                          JsOr(data.dataMessage, Str("The requested resource does not exist")))
                 ELSE IF status = 401 \/ status = 403
                 THEN LoopMessageError(Str("Authentication failed"), Num(status),
                          Str("Invalid API credentials"))
                 ELSE IF status = 400
                 THEN LoopMessageError(Str("Invalid request"), Num(400),
                          JsOr(data.dataMessage, Str("The request parameters are invalid")))
                 ELSE LoopMessageError(JsOr(data.dataMessage, Str("API request failed")),
                          JsOr(data.dataCode, Num(status)), error.message)
            ELSE LoopMessageError(Str("Request failed"), Num(500), error.message)
    IN  [built EXCEPT !.of = error.id]

\* What a caller-supplied onError throws: an error of its own making
TransformedError(error) ==
    [MkError("CustomError", "CustomError", Undef, Undef, Str("transformed"), Undef,
             FALSE, NoResponse) EXCEPT !.of = error.id]

Thrown_Wrapped(error, onError) ==
    IF onError = "classify" THEN handleRequestError(error) ELSE TransformedError(error)

\* if (onError) { onError(typedError); }  throw typedError;
\* The value is the error the retry call rejects with.
Thrown(error, onError) ==
    CASE onError = "none" -> error
      [] onError = "classify" -> handleRequestError(error)
      [] OTHER -> TransformedError(error)

Resolved(v) == [kind |-> "resolved", value |-> v, error |-> NoError]
Rejected(e) == [kind |-> "rejected", value |-> 0, error |-> e]
Pending == [kind |-> "pending", value |-> 0, error |-> NoError]

NoOptions ==
    [maxRetries |-> Absent, baseDelay |-> Absent, nonRetryableErrors |-> AbsentList,
     hasOnRetry |-> FALSE, onError |-> "none"]

\* An outcome of one invocation of the operation
Success(v) == [ok |-> TRUE, value |-> v, err |-> NoError]
Failure(e) == [ok |-> FALSE, value |-> 0, err |-> e]

\* One turn of the while (true) loop of retryWithExponentialBackoff, up to
\* the await of the backoff timer, with the operation settling as `o`.
RetryAttempt(o) ==
    /\ rpc = "attempt"
    /\ LET id == Invocations(rlog) + 1
           called == Append(rlog, Ev("op", id, 0, 0))
           err == [o.err EXCEPT !.id = id]
           delay == BackoffDelay(BaseDelayOf(ropts), currentRetry)
       IN  IF o.ok
           THEN /\ rresult' = Resolved(o.value)
                /\ rpc' = "done"
                /\ rlog' = called
                /\ UNCHANGED lastError
           ELSE /\ lastError' = err
                /\ IF \/ RetriesExhausted(currentRetry, MaxRetriesOf(ropts))
                      \/ isNonRetryableError(err, NonRetryableOf(ropts))
                   THEN /\ rresult' = Rejected(Thrown(err, ropts.onError))
                        /\ rpc' = "done"
                        /\ rlog' = IF ropts.onError = "none" THEN called
                                   ELSE Append(called, Ev("onError", 0, 0, id))
                   ELSE /\ rlog' = (IF ropts.hasOnRetry
                                    THEN Append(called, Ev("onRetry", currentRetry + 1, delay, id))
                                    ELSE called) \o <<Ev("delay", 0, delay, 0)>>
                        /\ rpc' = "backoff"
                        /\ UNCHANGED rresult
    /\ UNCHANGED <<ropts, currentRetry>>

\* The backoff timer fires: currentRetry++ and the loop goes round
RetryBackoff ==
    /\ rpc = "backoff"
    /\ currentRetry' = currentRetry + 1
    /\ rpc' = "attempt"
    /\ UNCHANGED <<ropts, rlog, lastError, rresult>>

RetryIdle ==
    /\ rpc = "idle"
    /\ ropts = NoOptions
    /\ currentRetry = 0
    /\ rlog = <<>>
    /\ lastError = NoError
    /\ rresult = Pending

\* retryWithExponentialBackoff(operation, options) is entered
RetryEnter(options) ==
    /\ rpc = "idle"
    /\ rpc' = "attempt"
    /\ ropts' = options
    /\ currentRetry' = 0
    /\ UNCHANGED <<rlog, lastError, rresult>>

----------------------------------------------------------------------------
(* Status poller: MessageStatusChecker.checkStatus / waitForStatus          *)

\* MESSAGE_STATUS
MessageStatuses == {"processing", "scheduled", "failed", "sent", "timeout", "unknown"}

\* One entry of wlog.  k = "check": STATUS_CHECK { messageId };
\* k = "checked": STATUS_CHECK { messageId, status } for response a with
\* status new; k = "status_change": STATUS_CHANGE { oldStatus, newStatus } on
\* response a; k = "status_error": STATUS_ERROR for check a;
\* k = "status_timeout": STATUS_TIMEOUT { messageId msg, targetStatuses
\* targets, elapsed t, attempts a }; k = "error": the 'error' event;
\* k = "error_param": the 'error' event of a checkStatus call without id.
WEv(k, a, old, new, t) ==
    [k |-> k, a |-> a, old |-> old, new |-> new, t |-> t, msg |-> "", targets |-> {}]

\* this.emit(STATUS_EVENTS.STATUS_TIMEOUT, { messageId, targetStatuses, elapsed, attempts })
TimeoutEv(a, att, elapsed) ==
    [WEv("status_timeout", att, "null", "null", elapsed)
        EXCEPT !.msg = a.messageId, !.targets = a.targetStatuses]

CheckFailedEvents_Silent(id) == <<>>

\* catch (error) { this.emit(STATUS_EVENTS.STATUS_ERROR, { messageId, error }); throw error; }
CheckFailedEvents(id) == <<WEv("status_error", id, "null", "null", 0)>>

WEventsOf(log, k) == SelectSeq(log, LAMBDA x: x.k = k)

\* how many times checkStatus was called
StatusChecks(log) == Len(WEventsOf(log, "check")) + Len(WEventsOf(log, "error_param"))

\* the responses the status checks returned, in order
Responses(log) == WEventsOf(log, "checked")

StatusChanges(log) == WEventsOf(log, "status_change")

NoResp == [id |-> 0, status |-> "null"]
WPending == [kind |-> "pending", resp |-> NoResp, error |-> NoError]
WResolved(r) == [kind |-> "resolved", resp |-> r, error |-> NoError]
WRejected(e) == [kind |-> "rejected", resp |-> NoResp, error |-> e]

NoWait ==
    [messageId |-> "", targetStatuses |-> {}, maxAttempts |-> 0, delayMs |-> 0,
     timeoutMs |-> 0]

WaitIdle ==
    /\ wpc = "idle"
    /\ wargs = NoWait
    /\ attempts = 0
    /\ lastStatus = "null"
    /\ startTime = 0
    /\ now = 0
    /\ wlog = <<>>
    /\ wresult = WPending

\* the calls of waitForStatus
WaitArgs ==
    [messageId : {"msg-123", ""},
     targetStatuses : {{"sent"}, {"sent", "failed"}, {"scheduled", "timeout"}},
     maxAttempts : 0..MaxAttemptsBound,
     delayMs : {1, 2},
     timeoutMs : {0, 2}]

\* LoopMessageError.timeoutError(errorMessage)
timeoutError == LoopMessageError(Str("Request timeout"), Num(408), Str("did not reach target"))

\* LoopMessageError.missingParamError('messageId')
missingParamError ==
    LoopMessageError(Str("Missing required parameter: messageId"), Num(400),
                     Str("Required parameter missing in request"))

\* what statusClient.get rejects with: a classified error of the HTTP client
StatusCheckErrors ==
    {LoopMessageError(Str("Resource not found"), Num(404),
                      Str("The requested resource does not exist")),
     LoopMessageError(Str("API request failed"), Num(500),
                      Str("Request failed with status code"))}

\* how a status request settles: a response with a status, or an error
StatusOutcomes ==
    {[ok |-> TRUE, status |-> st, err |-> NoError] : st \in MessageStatuses}
        \cup {[ok |-> FALSE, status |-> "null", err |-> e] : e \in StatusCheckErrors}

TimedOut_IgnoringTimeout(timeoutMs, elapsed) == FALSE

\* if (timeoutMs > 0 && Date.now() - startTime > timeoutMs)
TimedOut(timeoutMs, elapsed) == timeoutMs > 0 /\ elapsed > timeoutMs

\* checkStatus(messageId) is entered: it throws at once without a message id
\* and else emits STATUS_CHECK and awaits statusClient.get.  `pc` is where
\* waitForStatus waits for it.
CheckStatusEnter(a, log, pc) ==
    IF a.messageId = ""
    THEN /\ wlog' = Append(log, WEv("error_param", StatusChecks(log) + 1, "null", "null", 0))
         /\ wresult' = WRejected([missingParamError EXCEPT !.id = StatusChecks(log) + 1])
         /\ wpc' = "done"
    ELSE /\ wlog' = Append(log, WEv("check", StatusChecks(log) + 1, "null", "null", 0))
         /\ wpc' = pc
         /\ UNCHANGED wresult

WaitLoopTop_RejectWhenExhausted(a, att, t, log) ==
    IF att < a.maxAttempts /\ ~TimedOut(a.timeoutMs, t - startTime')
    THEN CheckStatusEnter(a, log, "checking")
    ELSE /\ wlog' = log \o <<TimeoutEv(a, att, t - startTime'),
                             WEv("error", 0, "null", "null", 0)>>
         /\ wresult' = WRejected(timeoutError)
         /\ wpc' = "done"

WaitLoopTop_ExtraAttempt(a, att, t, log) ==
    IF att <= a.maxAttempts
    THEN IF TimedOut(a.timeoutMs, t - startTime')
         THEN /\ wlog' = log \o <<TimeoutEv(a, att, t - startTime'),
                                  WEv("error", 0, "null", "null", 0)>>
              /\ wresult' = WRejected(timeoutError)
              /\ wpc' = "done"
         ELSE CheckStatusEnter(a, log, "checking")
    ELSE CheckStatusEnter(a, log, "final")

\* The top of the while loop of waitForStatus with `att` attempts made, at
\* time `t`, up to the next await: the timeout test and the call of
\* checkStatus, or the final checkStatus once the attempts are used up.
WaitLoopTop(a, att, t, log) ==
    IF att < a.maxAttempts
    THEN IF TimedOut(a.timeoutMs, t - startTime')
         THEN /\ wlog' = log \o <<TimeoutEv(a, att, t - startTime'),
                                  WEv("error", 0, "null", "null", 0)>>
              /\ wresult' = WRejected(timeoutError)
              /\ wpc' = "done"
         ELSE CheckStatusEnter(a, log, "checking")
    ELSE CheckStatusEnter(a, log, "final")

\* async waitForStatus(messageId, targetStatus, options)
WaitForStatus ==
    /\ wpc = "idle"
    /\ \E a \in WaitArgs :
          /\ wargs' = a
          /\ attempts' = 0
          /\ startTime' = now
          /\ lastStatus' = "null"
          /\ WaitLoopTop(a, 0, now, wlog)
    /\ UNCHANGED now
    /\ UNCHANGED <<retryVars, httpVars, hookVars, sendVars, concVars, mwVars, convVars>>

ChangeEmitted_Always(last, status) == TRUE

\* if (lastStatus !== null && lastStatus !== status.status)
ChangeEmitted(last, status) == last # "null" /\ last # status

IsTerminal_TargetOnly(targetStatuses, status) == status \in targetStatuses

\* if (targetStatuses.includes(status.status)) return status;
\* if (status.status === MESSAGE_STATUS.FAILED) return status;
IsTerminal(targetStatuses, status) == status \in targetStatuses \/ status = "failed"

\* The status check awaited inside the loop settles as `o` after `lat` ms:
\* the rest of checkStatus and the loop body up to the next await.
WaitCheckSettles ==
    /\ wpc = "checking"
    /\ \E o \in StatusOutcomes, lat \in 0..MaxLatency :
          LET id == StatusChecks(wlog)
              resp == [id |-> id, status |-> o.status]
              checked == Append(wlog, WEv("checked", id, "null", o.status, 0))
              changed == IF ChangeEmitted(lastStatus, o.status)
                         THEN Append(checked, WEv("status_change", id, lastStatus, o.status, 0))
                         ELSE checked
          IN  /\ now' = now + lat
              /\ UNCHANGED startTime
              /\ IF ~o.ok
                 THEN /\ wlog' = wlog \o CheckFailedEvents(id)
                      /\ wresult' = WRejected([o.err EXCEPT !.id = id])
                      /\ wpc' = "done"
                      /\ UNCHANGED <<attempts, lastStatus>>
                 ELSE /\ lastStatus' = o.status
                      /\ IF IsTerminal(wargs.targetStatuses, o.status)
                         THEN /\ wlog' = changed
                              /\ wresult' = WResolved(resp)
                              /\ wpc' = "done"
                              /\ UNCHANGED attempts
                         ELSE /\ attempts' = attempts + 1
                              /\ IF attempts + 1 < wargs.maxAttempts
                                 THEN /\ wlog' = changed
                                      /\ wpc' = "sleeping"
                                      /\ UNCHANGED wresult
                                 ELSE WaitLoopTop(wargs, attempts + 1, now + lat, changed)
    /\ UNCHANGED wargs
    /\ UNCHANGED <<retryVars, httpVars, hookVars, sendVars, concVars, mwVars, convVars>>

\* await new Promise(resolve => setTimeout(resolve, delayMs)) is over, no
\* sooner than delayMs after it began, and the loop goes round
WaitTimerFires ==
    /\ wpc = "sleeping"
    /\ \E late \in 0..MaxLatency :
          /\ now' = now + wargs.delayMs + late
          /\ UNCHANGED startTime
          /\ WaitLoopTop(wargs, attempts, now + wargs.delayMs + late, wlog)
    /\ UNCHANGED <<wargs, attempts, lastStatus>>
    /\ UNCHANGED <<retryVars, httpVars, hookVars, sendVars, concVars, mwVars, convVars>>

\* return this.checkStatus(messageId) after the loop: the final check
\* settles as `o` and waitForStatus settles the same way
WaitFinalSettles ==
    /\ wpc = "final"
    /\ \E o \in StatusOutcomes, lat \in 0..MaxLatency :
          LET id == StatusChecks(wlog)
          IN  /\ now' = now + lat
              /\ IF o.ok
                 THEN /\ wlog' = Append(wlog, WEv("checked", id, "null", o.status, 0))
                      /\ wresult' = WResolved([id |-> id, status |-> o.status])
                 ELSE /\ wlog' = wlog \o CheckFailedEvents(id)
                      /\ wresult' = WRejected([o.err EXCEPT !.id = id])
    /\ wpc' = "done"
    /\ UNCHANGED <<wargs, attempts, lastStatus, startTime>>
    /\ UNCHANGED <<retryVars, httpVars, hookVars, sendVars, concVars, mwVars, convVars>>


----------------------------------------------------------------------------
(* Several waitForStatus calls on one MessageStatusChecker.  Each call has  *)
(* its own attempts, startTime and lastStatus (they are locals of the async *)
(* function); the calls share the clock and the checker they emit on.       *)

CallIds == {1, 2}

\* the state of one call; log is what the checker emitted on its behalf and
\* slept is when its pending timer was set
FreshCall ==
    [pc |-> "idle", args |-> NoWait, attempts |-> 0, lastStatus |-> "null",
     startTime |-> 0, slept |-> 0, log |-> <<>>, result |-> WPending]

ConcIdle == calls = [p \in CallIds |-> FreshCall]

\* the calls made side by side, for the same or for different message ids:
\* call 1 polls twice with or without a time limit, call 2 polls once
ConcArgs(p) ==
    IF p = 1
    THEN [messageId : {"msg-123"}, targetStatuses : {{"sent"}}, maxAttempts : {2},
          delayMs : {1}, timeoutMs : {0, 1}]
    ELSE [messageId : {"msg-123", "msg-456"}, targetStatuses : {{"sent"}},
          maxAttempts : {1}, delayMs : {1}, timeoutMs : {0}]

\* how long a status request of one of these calls may take
ConcLatencies == {0, 1}

\* how a status request of one of these calls settles
ConcOutcomes ==
    {o \in StatusOutcomes :
        \/ o.status \in {"processing", "scheduled", "sent"}
        \/ (~o.ok /\ o.err.code = Num(404))}

\* checkStatus(messageId) is entered by call c, which waits for it at pc
CallCheckEnter(c, pc) ==
    IF c.args.messageId = ""
    THEN [c EXCEPT !.log = Append(@, WEv("error_param", StatusChecks(c.log) + 1,
                                         "null", "null", 0)),
                   !.result = WRejected([missingParamError
                                            EXCEPT !.id = StatusChecks(c.log) + 1]),
                   !.pc = "done"]
    ELSE [c EXCEPT !.log = Append(@, WEv("check", StatusChecks(c.log) + 1,
                                         "null", "null", 0)),
                   !.pc = pc]

\* the top of the while loop of call c at time t, up to the next await
CallLoopTop(c, t) ==
    IF c.attempts < c.args.maxAttempts
    THEN IF TimedOut(c.args.timeoutMs, t - c.startTime)
         THEN [c EXCEPT !.log = @ \o <<TimeoutEv(c.args, c.attempts, t - c.startTime),
                                       WEv("error", 0, "null", "null", 0)>>,
                        !.result = WRejected(timeoutError),
                        !.pc = "done"]
         ELSE CallCheckEnter(c, "checking")
    ELSE CallCheckEnter(c, "final")

LastStatusSeen_OneField(cs, p) == cs[3 - p].lastStatus

\* let lastStatus: a local of the call, read at `lastStatus !== status.status`
LastStatusSeen(cs, p) == cs[p].lastStatus

\* one call of waitForStatus is entered while others may be running
ConcWaitForStatus ==
    /\ wpc = "idle"
    /\ \E p \in CallIds :
          /\ calls[p].pc = "idle"
          /\ \E a \in ConcArgs(p) :
               calls' = [calls EXCEPT ![p] =
                            CallLoopTop([FreshCall EXCEPT !.args = a, !.startTime = now],
                                        now)]
    /\ UNCHANGED <<retryVars, httpVars, waitVars, hookVars, sendVars, mwVars, convVars>>

\* the status check a call awaits inside its loop settles as `o`
ConcCheckSettles ==
    /\ wpc = "idle"
    /\ \E p \in CallIds, o \in ConcOutcomes, lat \in ConcLatencies :
          LET c == calls[p]
              id == StatusChecks(c.log)
              last == LastStatusSeen(calls, p)
              checked == Append(c.log, WEv("checked", id, "null", o.status, 0))
              changed == IF ChangeEmitted(last, o.status)
                         THEN Append(checked, WEv("status_change", id, last, o.status, 0))
                         ELSE checked
              seen == [c EXCEPT !.lastStatus = o.status, !.log = changed]
          IN  /\ c.pc = "checking"
              /\ now' = now + lat
              /\ calls' = [calls EXCEPT ![p] =
                    IF ~o.ok
                    THEN [c EXCEPT !.log = @ \o CheckFailedEvents(id),
                                   !.result = WRejected([o.err EXCEPT !.id = id]),
                                   !.pc = "done"]
                    ELSE IF IsTerminal(c.args.targetStatuses, o.status)
                    THEN [seen EXCEPT !.result = WResolved([id |-> id, status |-> o.status]),
                                      !.pc = "done"]
                    ELSE IF c.attempts + 1 < c.args.maxAttempts
                    THEN [seen EXCEPT !.attempts = @ + 1, !.slept = now + lat,
                                      !.pc = "sleeping"]
                    ELSE CallLoopTop([seen EXCEPT !.attempts = @ + 1], now + lat)]
    /\ UNCHANGED <<wpc, wargs, attempts, lastStatus, startTime, wlog, wresult>>
    /\ UNCHANGED <<retryVars, httpVars, hookVars, sendVars, mwVars, convVars>>

\* the timer of a sleeping call fires, no sooner than delayMs after it was set
ConcTimerFires ==
    /\ wpc = "idle"
    /\ \E p \in CallIds :
          LET c == calls[p]
              due == c.slept + c.args.delayMs
              t == IF now > due THEN now ELSE due
          IN  /\ c.pc = "sleeping"
              /\ now' = t
              /\ calls' = [calls EXCEPT ![p] = CallLoopTop(c, t)]
    /\ UNCHANGED <<wpc, wargs, attempts, lastStatus, startTime, wlog, wresult>>
    /\ UNCHANGED <<retryVars, httpVars, hookVars, sendVars, mwVars, convVars>>

\* the final check of a call settles as `o`, and the call with it
ConcFinalSettles ==
    /\ wpc = "idle"
    /\ \E p \in CallIds, o \in ConcOutcomes, lat \in ConcLatencies :
          LET c == calls[p]
              id == StatusChecks(c.log)
          IN  /\ c.pc = "final"
              /\ now' = now + lat
              /\ calls' = [calls EXCEPT ![p] =
                    IF o.ok
                    THEN [c EXCEPT !.log = Append(@, WEv("checked", id, "null", o.status, 0)),
                                   !.result = WResolved([id |-> id, status |-> o.status]),
                                   !.pc = "done"]
                    ELSE [c EXCEPT !.log = @ \o CheckFailedEvents(id),
                                   !.result = WRejected([o.err EXCEPT !.id = id]),
                                   !.pc = "done"]]
    /\ UNCHANGED <<wpc, wargs, attempts, lastStatus, startTime, wlog, wresult>>
    /\ UNCHANGED <<retryVars, httpVars, hookVars, sendVars, mwVars, convVars>>

----------------------------------------------------------------------------
(* Webhook verifier: WebhookHandler.parseWebhook / verifySignature, and the *)
(* LoopSdk facade in front of it                                            *)

\* EVENTS.WEBHOOK: the names of the handler's own notifications
WEBHOOK_EVENTS ==
    {"webhook_received", "webhook_verified", "webhook_invalid",
     "webhook_parse_error", "signature_error"}

\* WEBHOOK_TYPES: the webhook types the Loop API sends
WEBHOOK_TYPES == {"message_inbound", "message_sent", "message_failed"}

\* webhook secrets a LoopSdk is configured with; "" is no webhook config
SecretKeys == {"", "whsec-1"}

\* the keys a sender may sign a body with: the configured one and another
SigningKeys == {"whsec-1", "whsec-2"}

\* Raw request bodies, as the strings they are
BodyInbound == "{\"type\":\"message_inbound\",\"timestamp\":\"t1\",\"text\":\"hi\"}"
BodyInboundSpaced == "{ \"timestamp\": \"t1\", \"text\": \"hi\", \"type\": \"message_inbound\" }"
BodySent == "{\"type\":\"message_sent\",\"timestamp\":\"t2\"}"
BodyNoTimestamp == "{\"type\":\"message_failed\"}"
BodyNoType == "{\"timestamp\":\"t1\",\"text\":\"hi\"}"
BodyEmptyType == "{\"type\":\"\",\"timestamp\":\"t1\"}"
BodyNull == "null"
BodyInboundReordered == "{\"timestamp\":\"t1\",\"text\":\"hi\",\"type\":\"message_inbound\"}"
BodyAlertInbound == "{\"alert_type\":\"message_inbound\",\"type\":\"message_inbound\",\"timestamp\":\"t1\"}"
BodyAlertSent == "{\"alert_type\":\"message_sent\",\"type\":\"message_sent\",\"timestamp\":\"t2\"}"
BodyAlertOnly == "{\"alert_type\":\"message_inbound\",\"text\":\"hi\"}"
BodyTruncated == "{\"type\":\"message_inbound\",\"timest"
BodyEmpty == ""
Bodies ==
    {BodyInbound, BodyInboundSpaced, BodySent, BodyNoTimestamp, BodyNoType,
     BodyEmptyType, BodyNull, BodyTruncated, BodyEmpty}

\* A JSON value as JSON.parse returns it: an object with its type, timestamp,
\* text and alert_type properties, or null
JsonObject(type, timestamp, text) ==
    [json |-> "object", type |-> type, timestamp |-> timestamp, text |-> text,
     alert_type |-> Undef]
JsonNull ==
    [json |-> "null", type |-> Undef, timestamp |-> Undef, text |-> Undef,
     alert_type |-> Undef]

\* JSON.parse(body): the value, or a SyntaxError
JSONParse(body) ==
    CASE body = BodyInbound ->
            [ok |-> TRUE, value |-> JsonObject(Str("message_inbound"), Str("t1"), Str("hi"))]
      [] body = BodyInboundSpaced ->
            [ok |-> TRUE, value |-> JsonObject(Str("message_inbound"), Str("t1"), Str("hi"))]
      [] body = BodySent ->
            [ok |-> TRUE, value |-> JsonObject(Str("message_sent"), Str("t2"), Undef)]
      [] body = BodyNoTimestamp ->
            [ok |-> TRUE, value |-> JsonObject(Str("message_failed"), Undef, Undef)]
      [] body = BodyNoType ->
            [ok |-> TRUE, value |-> JsonObject(Undef, Str("t1"), Str("hi"))]
      [] body = BodyEmptyType ->
            [ok |-> TRUE, value |-> JsonObject(Str(""), Str("t1"), Undef)]
      [] body = BodyNull ->
            [ok |-> TRUE, value |-> JsonNull]
      [] body = BodyInboundReordered ->
            [ok |-> TRUE, value |-> JsonObject(Str("message_inbound"), Str("t1"), Str("hi"))]
      [] body = BodyAlertInbound ->
            [ok |-> TRUE,
             value |-> [JsonObject(Str("message_inbound"), Str("t1"), Undef)
                           EXCEPT !.alert_type = Str("message_inbound")]]
      [] body = BodyAlertSent ->
            [ok |-> TRUE,
             value |-> [JsonObject(Str("message_sent"), Str("t2"), Undef)
                           EXCEPT !.alert_type = Str("message_sent")]]
      [] body = BodyAlertOnly ->
            [ok |-> TRUE,
             value |-> [JsonObject(Undef, Undef, Str("hi"))
                           EXCEPT !.alert_type = Str("message_inbound")]]
      [] OTHER ->
            [ok |-> FALSE, value |-> JsonNull]

\* The value of the signature header: undefined, or a string.  A string is
\* the empty string, the encoding enc ("hex": lower-case hex, "HEX": upper-
\* case hex, "base64") of the HMAC-SHA256 of msg under key, or other text.
SigUndefined == [t |-> "undef", key |-> "", msg |-> "", enc |-> ""]
SigEmpty == [t |-> "str", key |-> "", msg |-> "", enc |-> ""]
SigText == [t |-> "str", key |-> "", msg |-> "", enc |-> "text"]
SigDigest(key, msg, enc) == [t |-> "str", key |-> key, msg |-> msg, enc |-> enc]

\* crypto.createHmac('sha256', key).update(body).digest('hex'): two digests
\* are the same string only for the same key and the same body
HmacSha256Hex(key, body) == SigDigest(key, body, "hex")

Signatures ==
    {SigUndefined, SigEmpty, SigText}
        \cup {HmacSha256Hex(k, b) : k \in SigningKeys, b \in Bodies}
        \cup {SigDigest(k, BodyInbound, "HEX") : k \in SigningKeys}

\* !!signature
SigTruthy(sig) == sig.t = "str" /\ sig # SigEmpty

\* One step of parseWebhook: a notification (k = "emit") with its name and
\* payload, the signature comparison (k = "compare", data.ok its result), or
\* the JSON.parse call (k = "parse")
Emit(name, data) == [k |-> "emit", name |-> name, data |-> data]
CompareStep(ok) == [k |-> "compare", name |-> "", data |-> [ok |-> ok]]
ParseStep == [k |-> "parse", name |-> "", data |-> [ok |-> TRUE]]
Emits(log) == SelectSeq(log, LAMBDA x : x.k = "emit")
EmitsNamed(log, names) == SelectSeq(log, LAMBDA x : x.k = "emit" /\ x.name \in names)

Returned(payload) == [kind |-> "returned", payload |-> payload, error |-> NoError]
Threw(e) == [kind |-> "threw", payload |-> JsonNull, error |-> e]
NotCalled == [kind |-> "none", payload |-> JsonNull, error |-> NoError]

authError(details) ==
    LoopMessageError(Str("Authentication failed"), Num(401), Str(details))
invalidParamError(param, details) ==
    LoopMessageError(Str("Invalid parameter: " \o param), Num(400), Str(details))

WEBHOOK_MISSING_FIELDS == "Invalid webhook payload: missing required fields"
WEBHOOK_INVALID_JSON == "Invalid webhook payload: invalid JSON"

\* what reading payload.type of null throws
TypeError ==
    MkError("TypeError", "TypeError", Undef, Undef,
            Str("Cannot read properties of null"), Undef, FALSE, NoResponse)
\* what JSON.parse throws
SyntaxError ==
    MkError("SyntaxError", "SyntaxError", Undef, Undef,
            Str("Unexpected token in JSON"), Undef, FALSE, NoResponse)

SignatureMatches_AnyDigest(signature, expected) == signature.enc \in {"hex", "HEX"}

\* !(signature !== expectedSignature)
SignatureMatches(signature, expected) == signature = expected

verifySignature_Unchecked(key, body, signature) == [log |-> <<>>, error |-> NoError]

\* private verifySignature(body, signature): what it does and the error it
\* throws (NoError when it returns).  createHmac / update / digest do not
\* throw for a string body and a non-empty key.
verifySignature(key, body, signature) ==
    IF ~SigTruthy(signature)
    THEN [log |-> <<Emit("signature_error", [reason |-> "missing signature"])>>,
          error |-> invalidParamError("signature", "Missing webhook signature header")]
    ELSE IF ~SignatureMatches(signature, HmacSha256Hex(key, body))
         THEN [log |-> <<CompareStep(FALSE),
                         Emit("signature_error", [reason |-> "invalid signature"])>>,
               error |-> authError("Invalid webhook signature")]
         ELSE [log |-> <<CompareStep(TRUE)>>, error |-> NoError]

\* the try block of parseWebhook and its catch, entered after verification
ParseVerified(body) ==
    LET parsed == JSONParse(body)
        payload == parsed.value
    IN  IF ~parsed.ok
        THEN [log |-> <<ParseStep, Emit("webhook_parse_error", [error |-> SyntaxError])>>,
              result |-> Threw(invalidParamError("webhook", WEBHOOK_INVALID_JSON))]
        ELSE IF payload.json = "null"
        THEN [log |-> <<ParseStep, Emit("error", [error |-> TypeError])>>,
              result |-> Threw(TypeError)]
        ELSE IF ~Truthy(payload.type) \/ ~Truthy(payload.timestamp)
        THEN LET error == invalidParamError("webhook", WEBHOOK_MISSING_FIELDS)
             IN  [log |-> <<ParseStep,
                            Emit("webhook_invalid",
                                 [payload |-> payload, reason |-> "missing required fields"]),
                            Emit("webhook_invalid", [error |-> error])>>,
                  result |-> Threw(error)]
        ELSE [log |-> <<ParseStep,
                        Emit(payload.type.s, [timestamp |-> payload.timestamp]),
                        Emit(payload.type.s, payload),
                        Emit("webhook", payload)>>,
              result |-> Returned(payload)]

\* WebhookHandler.parseWebhook(body, signature) of a handler with secret key
parseWebhook(key, body, signature) ==
    LET received0 == <<Emit("webhook_received", [signaturePresent |-> SigTruthy(signature)])>>
        verified == verifySignature(key, body, signature)
    IN  IF verified.error # NoError
        THEN [log |-> received0 \o verified.log, result |-> Threw(verified.error)]
        ELSE LET rest == ParseVerified(body)
             IN  [log |-> received0 \o verified.log
                             \o <<Emit("webhook_verified", [signature |-> signature])>>
                             \o rest.log,
                  result |-> rest.result]

ForwardedNames_Everything(eventNames) == WEBHOOK_EVENTS \cup WEBHOOK_TYPES \cup {"webhook", "error"}

\* forwardServiceEvents(service, eventNames): the names re-emitted on the SDK
ForwardedNames(eventNames) == eventNames \cup {"error"}

\* the notifications a service's emits cause on the LoopSdk, in order
forwardServiceEvents(log, eventNames) == EmitsNamed(log, ForwardedNames(eventNames))

\* 'Webhook handler not configured. Please provide webhook.secretKey ...'
NotConfiguredError ==
    MkError("Error", "Error", Undef, Undef, Str("Webhook handler not configured"),
            Undef, FALSE, NoResponse)

\* the names a caller may subscribe to on the LoopSdk
ListenerNames == {"message_inbound", "webhook", "webhook_verified"}

NoCall == [body |-> "", signature |-> SigUndefined]

\* ERROR_MESSAGES.MISSING_WEBHOOK_SECRET, thrown by the WebhookHandler constructor
MissingWebhookSecretError ==
    MkError("Error", "Error", Undef, Undef,
            Str("Missing required config: webhookSecretKey is required for webhook verification"),
            Undef, FALSE, NoResponse)

\* new WebhookHandler(config): if (!config.webhookSecretKey) throw
WebhookHandlerNew(config) ==
    IF Truthy(config.webhookSecretKey)
    THEN Success(0)
    ELSE Failure(MissingWebhookSecretError)

\* new LoopMessageConversationService({ ..., webhookAuthToken }): with a
\* token, initializeWebhooks builds a WebhookHandler from { authToken, debug }
ConversationServiceNew(webhookAuthToken) ==
    IF webhookAuthToken # ""
    THEN WebhookHandlerNew([webhookSecretKey |-> Undef, authToken |-> Str(webhookAuthToken)])
    ELSE Success(0)

\* getWebhookMiddleware() without a conversation service
ConversationsDisabledError ==
    MkError("Error", "Error", Undef, Undef, Str("Conversation service not enabled"),
            Undef, FALSE, NoResponse)

\* LoopMessageConversationService.getWebhookMiddleware() without this.webhooks
WebhooksNotInitializedError ==
    LoopMessageError(Str("Webhooks not initialized"), Num(400),
                     Str("Missing webhook configuration"))

\* before new LoopSdk(config); conversationService is "none", or the service
\* "without-webhooks" or "with-webhooks" (its this.webhooks field)
NoSdk ==
    [state |-> "none", enableConversations |-> FALSE, conversationService |-> "none",
     thrown |-> NoError]

\* no listener on the WebhookHandler; name is the notification it listens to
NoSubscriber == [name |-> "", throws |-> "none"]

\* no parseWebhook call yet, no listener registered
HookFresh ==
    /\ gotMiddleware = NotCalled
    /\ sdkListeners = {}
    /\ whcall = NoCall
    /\ whlog = <<>>
    /\ sdklog = <<>>
    /\ received = <<>>
    /\ whresult = NotCalled
    /\ subscriber = NoSubscriber

HookIdle == sdk = NoSdk /\ secretKey = "" /\ HookFresh

\* new LoopSdk(config): the webhook handler is built when webhook.secretKey
\* is given, then the conversation service when enableConversations is set
NewLoopSdk ==
    /\ sdk.state = "none"
    /\ \E key \in SecretKeys, enable \in BOOLEAN :
          LET handler == IF key # ""
                         THEN WebhookHandlerNew([webhookSecretKey |-> Str(key),
                                                 authToken |-> Undef])
                         ELSE Success(0)
              conversations == IF enable THEN ConversationServiceNew(key) ELSE Success(0)
              thrown == IF ~handler.ok THEN handler.err ELSE conversations.err
          IN  /\ secretKey' = key
              /\ sdk' = [state |-> IF thrown = NoError THEN "constructed" ELSE "threw",
                         enableConversations |-> enable,
                         conversationService |->
                             IF enable /\ thrown = NoError
                             THEN (IF key # "" THEN "with-webhooks" ELSE "without-webhooks")
                             ELSE "none",
                         thrown |-> thrown]
    /\ UNCHANGED <<gotMiddleware, sdkListeners, whcall, whlog, sdklog, received, whresult, subscriber>>
    /\ UNCHANGED <<retryVars, httpVars, waitVars, sendVars, concVars, mwVars, convVars>>

\* LoopSdk.getWebhookMiddleware(): WebhookHandler has no middleware method
SdkGetWebhookMiddleware ==
    /\ sdk.state = "constructed"
    /\ gotMiddleware' =
          CASE sdk.conversationService = "none" -> Threw(ConversationsDisabledError)
            [] sdk.conversationService = "without-webhooks" ->
                   Threw(WebhooksNotInitializedError)
            [] OTHER -> Threw(TypeError)
    /\ UNCHANGED <<sdk, secretKey, sdkListeners, whcall, whlog, sdklog, received, whresult, subscriber>>
    /\ UNCHANGED <<retryVars, httpVars, waitVars, sendVars, concVars, mwVars, convVars>>

\* sdk.on(name, listener)
SdkOn ==
    /\ sdk.state = "constructed"
    /\ \E name \in ListenerNames \ sdkListeners : sdkListeners' = sdkListeners \cup {name}
    /\ UNCHANGED <<sdk, secretKey, gotMiddleware, whcall, whlog, sdklog, received, whresult, subscriber>>
    /\ UNCHANGED <<retryVars, httpVars, waitVars, sendVars, concVars, mwVars, convVars>>

\* LoopSdk.parseWebhook(body, signature)
SdkParseWebhook ==
    /\ sdk.state = "constructed"
    /\ \E body \in Bodies, signature \in Signatures :
          /\ whcall' = [body |-> body, signature |-> signature]
          /\ IF secretKey = ""
             THEN /\ whlog' = <<>>
                  /\ sdklog' = <<Emit("error", [error |-> NotConfiguredError])>>
                  /\ whresult' = Threw(NotConfiguredError)
             ELSE LET call == parseWebhook(secretKey, body, signature)
                  IN  /\ whlog' = call.log
                      /\ sdklog' = forwardServiceEvents(call.log, WEBHOOK_EVENTS)
                      /\ whresult' = call.result
    /\ received' = EmitsNamed(sdklog', sdkListeners)
    /\ UNCHANGED <<sdk, secretKey, gotMiddleware, sdkListeners, subscriber>>
    /\ UNCHANGED <<retryVars, httpVars, waitVars, sendVars, concVars, mwVars, convVars>>

----------------------------------------------------------------------------
(* Express middleware: createWebhookMiddleware and handleLoopWebhook        *)

\* webhookSecretKey / handlers.secretKey of the middleware
MiddlewareKey == "whsec-1"

\* The options of createWebhookMiddleware.  onWebhook is "none", a callback
\* of the caller that is "silent" or "responds" on res itself, or "handlers":
\* the callback handleLoopWebhook builds around handlers.onMessage, which is
\* not given ("none"), returns { typing: 3, read: true } ("returns-response")
\* or returns nothing ("returns-nothing").
MiddlewareOptions ==
    [via : {"createWebhookMiddleware"}, path : {"", "/webhooks/loop"},
     autoRespond : BOOLEAN, onWebhook : {"none", "silent", "responds"},
     onError : BOOLEAN, onMessage : {"none"}]
    \cup
    [via : {"handleLoopWebhook"}, path : {""},
     autoRespond : {TRUE}, onWebhook : {"handlers"},
     onError : {FALSE}, onMessage : {"none", "returns-response", "returns-nothing"}]

MiddlewareBodies ==
    {BodyInbound, BodyInboundSpaced, BodyAlertInbound, BodyAlertSent, BodyAlertOnly,
     BodyTruncated}

\* JSON.stringify(req.body) of a body that a JSON body parser has parsed
JSONStringify(raw) == IF raw = BodyInboundSpaced THEN BodyInboundReordered ELSE raw

\* A request: its path, the raw body the sender signed, whether a body parser
\* has replaced req.body by the parsed object, and the loop-signature header
MiddlewareRequests ==
    {r \in [path : {"/webhooks/loop", "/other"},
            raw : MiddlewareBodies,
            parsed : BOOLEAN,
            signature : {SigUndefined, SigText}
                            \cup {HmacSha256Hex(k, b) : k \in SigningKeys,
                                                        b \in MiddlewareBodies}] :
        /\ r.parsed => JSONParse(r.raw).ok
        /\ r.signature.t = "str" /\ r.signature.enc = "hex"
           => r.signature.msg = r.raw}

NoMiddlewareRequest ==
    [path |-> "", raw |-> "", parsed |-> FALSE, signature |-> SigUndefined]

\* the bodies res.json is called with
JsonSuccess == "{\"success\":true}"
JsonInvalidWebhook == "{\"error\":\"Invalid webhook\"}"
JsonHandlerResponse == "{\"typing\":3,\"read\":true}"
JsonCallbackResponse == "{\"handled\":true}"

FreshRes == [headersSent |-> FALSE, status |-> 0, body |-> ""]

\* res.status(status).json(body)
ResJson(status, body) == [headersSent |-> TRUE, status |-> status, body |-> body]

\* one entry of mwlog: a call the middleware or the callback made
MwCall(k, v) == [k |-> k, v |-> v]

NoPending == [waiting |-> FALSE, response |-> ""]

\* no middleware was created
NoMiddleware ==
    [via |-> "none", path |-> "", autoRespond |-> FALSE, onWebhook |-> "none",
     onError |-> FALSE, onMessage |-> "none"]

\* no request has reached the middleware
MiddlewareFresh ==
    /\ mwreq = NoMiddlewareRequest
    /\ res = FreshRes
    /\ mwlog = <<>>
    /\ mwpending = NoPending

MiddlewareIdle == mwOptions = NoMiddleware /\ MiddlewareFresh

\* new Error('Missing loop-signature header')
MissingHeaderError ==
    MkError("Error", "Error", Undef, Undef, Str("Missing loop-signature header"),
            Undef, FALSE, NoResponse)

\* the catch block of the middleware
MiddlewareCatch(options, error) ==
    IF options.onError
    THEN [res |-> FreshRes, log |-> <<MwCall("onError", error.message.s)>>,
          pending |-> NoPending]
    ELSE [res |-> ResJson(400, JsonInvalidWebhook),
          log |-> <<MwCall("console.error", error.message.s)>>,
          pending |-> NoPending]

\* handler.emit(alertType, payload) with __req and __res attached: the
\* listener registered for each WEBHOOK_TYPES value calls onWebhook.  The
\* callback of handleLoopWebhook runs up to `await handlers.onMessage(payload)`
\* and is suspended there; without a handler for the alert type it runs to
\* its end with response undefined.
MiddlewareDispatch(options, payload) ==
    IF ~Truthy(payload.alert_type)
       \/ payload.alert_type.s \notin WEBHOOK_TYPES
       \/ options.onWebhook = "none"
    THEN [res |-> FreshRes, log |-> <<>>, pending |-> NoPending]
    ELSE IF options.onWebhook = "handlers"
    THEN IF payload.alert_type.s = "message_inbound" /\ options.onMessage # "none"
         THEN [res |-> FreshRes,
               log |-> <<MwCall("onWebhook", payload.alert_type.s),
                         MwCall("onMessage", payload.alert_type.s)>>,
               pending |-> [waiting |-> TRUE,
                            response |-> IF options.onMessage = "returns-response"
                                         THEN JsonHandlerResponse ELSE ""]]
         ELSE [res |-> FreshRes, log |-> <<MwCall("onWebhook", payload.alert_type.s)>>,
               pending |-> NoPending]
    ELSE [res |-> IF options.onWebhook = "responds"
                  THEN ResJson(200, JsonCallbackResponse) ELSE FreshRes,
          log |-> <<MwCall("onWebhook", payload.alert_type.s)>>,
          pending |-> NoPending]

\* The middleware function from its first line to its last: it has no await.
\* The listeners of the payload types run inside parseWebhook, before __req
\* and __res are attached, and so call nothing.
MiddlewareRun(options, r) ==
    IF options.path # "" /\ r.path # options.path
    THEN [res |-> FreshRes, log |-> <<MwCall("next", "")>>, pending |-> NoPending]
    ELSE IF ~SigTruthy(r.signature)
    THEN MiddlewareCatch(options, MissingHeaderError)
    ELSE LET call == parseWebhook(MiddlewareKey,
                                  IF r.parsed THEN JSONStringify(r.raw) ELSE r.raw,
                                  r.signature)
         IN  IF call.result.kind = "threw"
             THEN MiddlewareCatch(options, call.result.error)
             ELSE LET d == MiddlewareDispatch(options, call.result.payload)
                      answered == IF options.autoRespond /\ ~d.res.headersSent
                                  THEN ResJson(200, JsonSuccess) ELSE d.res
                  IN  [res |-> answered,
                       log |-> IF answered.headersSent
                               THEN d.log ELSE Append(d.log, MwCall("next", "")),
                       pending |-> d.pending]

\* a request reaches the middleware
MiddlewareRequest ==
    /\ ~mwpending.waiting
    /\ \E r \in MiddlewareRequests :
          LET run == MiddlewareRun(mwOptions, r)
          IN  /\ mwreq' = r
              /\ res' = run.res
              /\ mwlog' = run.log
              /\ mwpending' = run.pending
    /\ UNCHANGED mwOptions
    /\ UNCHANGED <<retryVars, httpVars, waitVars, hookVars, sendVars, concVars, convVars>>

\* the onWebhook callback of handleLoopWebhook resumes after its await:
\* if (response && !res.headersSent) res.status(200).json(response)
MiddlewareCallbackResumes ==
    /\ mwpending.waiting
    /\ res' = IF mwpending.response # "" /\ ~res.headersSent
              THEN ResJson(200, mwpending.response) ELSE res
    /\ mwlog' = Append(mwlog, MwCall("resumed", mwpending.response))
    /\ mwpending' = NoPending
    /\ UNCHANGED <<mwOptions, mwreq>>
    /\ UNCHANGED <<retryVars, httpVars, waitVars, hookVars, sendVars, concVars, convVars>>

----------------------------------------------------------------------------
(* Conversation service: LoopMessageConversationService.sendMessage.  Its   *)
(* message service and status checker are the services modelled in the      *)
(* other sections; here they are seen through how their promises settle.    *)

\* The 'error' listener on the service: none; one that returns; one that
\* throws, as the forwarder of LoopSdk does when the SDK has no 'error'
\* listener of its own
ErrorListeners == {"none", "returns", "throws"}

\* what a throwing 'error' listener throws
ListenerError ==
    MkError("Error", "Error", Undef, Undef, Str("Unhandled error"), Undef, FALSE,
            NoResponse)

\* the calls of sendMessage: params.text and the ConversationSendOptions
ConvSends ==
    [text : {"hi"}, trackStatus : BOOLEAN, waitForDelivery : BOOLEAN,
     deliveryTimeoutMs : {0, 2}]

NoConvSend ==
    [text |-> "", trackStatus |-> FALSE, waitForDelivery |-> FALSE, deliveryTimeoutMs |-> 0]

\* LoopMessageSendResponse: message_id, success and text
SendResponses == [message_id : {"msg-1"}, success : BOOLEAN, text : {"hi"}]

\* how messageService.sendLoopMessage settles: a response, a LoopMessageError
\* of validation or of the HTTP client, or an error that is none
ConvSendOutcomes ==
    {[ok |-> TRUE, value |-> r, err |-> NoError] : r \in SendResponses}
        \cup {[ok |-> FALSE, value |-> NoConvSend, err |-> e] :
                 e \in {invalidParamError("recipient", "Invalid recipient"),
                        LoopMessageError(Str("API request failed"), Num(500),
                                         Str("Request failed with status code")),
                        TypeError,
                        MkError("Error", "Error", Undef, Undef, Str(""), Undef,
                                FALSE, NoResponse)}}

\* how statusChecker.waitForStatus settles: a status, or an error
ConvWaitOutcomes ==
    {[ok |-> TRUE, status |-> st, err |-> NoError] :
        st \in {"sent", "failed", "timeout", "processing"}}
        \cup {[ok |-> FALSE, status |-> "null", err |-> e] :
                 e \in {timeoutError} \cup StatusCheckErrors}

\* ConversationSendResult
SendResult(messageId, success, text, status, errorCode, errorMessage) ==
    [messageId |-> messageId, success |-> success, text |-> text, status |-> status,
     errorCode |-> errorCode, errorMessage |-> errorMessage]

CResolved(r) == [kind |-> "resolved", value |-> r, error |-> NoError]
CRejected(e) ==
    [kind |-> "rejected", value |-> SendResult("", FALSE, "", "", Undef, Undef),
     error |-> e]
CPending ==
    [kind |-> "pending", value |-> SendResult("", FALSE, "", "", Undef, Undef),
     error |-> NoError]

NoMessage == [messageId |-> "", status |-> "", tracked |-> FALSE]

\* messageStatusTracking has no entry: no interval, no timeout timer, no
\* status check of the interval callback in flight, no poll answered
NoTracker == [interval |-> FALSE, timer |-> FALSE, inflight |-> 0, polls |-> 0]

ConvIdle ==
    /\ cpc = "idle"
    /\ convListener = "none"
    /\ csend = NoConvSend
    /\ cmessage = NoMessage
    /\ convlog = <<>>
    /\ tracker = NoTracker
    /\ cresult = CPending

\* the result the catch block returns for `error`
FailureResult(text, error) ==
    IF error.cls = "LoopMessageError"
    THEN SendResult("", FALSE, text, "", error.code, error.message)
    ELSE SendResult("", FALSE, text, "", Num(500),
                    JsOr(error.message, Str("Unknown error occurred")))

\* catch (error) { this.emit(ConversationEvent.ERROR, error); return {...} }
\* ConversationEvent.ERROR is 'error': EventEmitter.emit throws the error
\* when no listener is registered for it, and a listener's throw propagates
CatchSettles(listener, text, error) ==
    CASE listener = "none" -> CRejected(error)
      [] listener = "throws" -> CRejected(ListenerError)
      [] OTHER -> CResolved(FailureResult(text, error))

\* private trackMessageStatus(messageId, terminalStatuses, timeoutMs): the
\* interval is set, and the timeout timer `if (timeoutMs)`
trackMessageStatus(timeoutMs) ==
    [interval |-> TRUE, timer |-> timeoutMs # 0, inflight |-> 0, polls |-> 0]

\* service.on('error', listener)
ConvOn ==
    /\ cpc = "idle"
    /\ convListener = "none"
    /\ convListener' \in ErrorListeners \ {"none"}
    /\ UNCHANGED <<cpc, csend, cmessage, convlog, tracker, cresult>>
    /\ UNCHANGED <<retryVars, httpVars, waitVars, hookVars, sendVars, concVars, mwVars>>

\* async sendMessage(params, options), up to its await of sendLoopMessage
ConvSendMessage ==
    /\ cpc = "idle"
    /\ csend' \in ConvSends
    /\ cpc' = "sending"
    /\ UNCHANGED <<convListener, cmessage, convlog, tracker, cresult>>
    /\ UNCHANGED <<retryVars, httpVars, waitVars, hookVars, sendVars, concVars, mwVars>>

\* sendLoopMessage settled as `o`: addOutboundMessageToThread,
\* trackMessageStatus, and the call of waitForStatus or the return
ConvSendSettles ==
    /\ cpc = "sending"
    /\ \E o \in ConvSendOutcomes :
          IF ~o.ok
          THEN /\ convlog' = Append(convlog, Emit("error", [error |-> o.err]))
               /\ cresult' = CatchSettles(convListener, csend.text, o.err)
               /\ cpc' = "done"
               /\ UNCHANGED <<cmessage, tracker>>
          ELSE /\ cmessage' = [messageId |-> o.value.message_id, status |-> "scheduled",
                               tracked |-> csend.trackStatus \/ csend.waitForDelivery]
               /\ tracker' = IF csend.trackStatus \/ csend.waitForDelivery
                             THEN trackMessageStatus(csend.deliveryTimeoutMs)
                             ELSE tracker
               /\ convlog' = Append(convlog,
                                    Emit("messageSent", [messageId |-> o.value.message_id]))
               /\ IF csend.waitForDelivery
                  THEN /\ cpc' = "waiting"
                       /\ UNCHANGED cresult
                  ELSE /\ cresult' = CResolved(SendResult(o.value.message_id, o.value.success,
                                                          o.value.text, "", Undef, Undef))
                       /\ cpc' = "done"
    /\ UNCHANGED <<convListener, csend>>
    /\ UNCHANGED <<retryVars, httpVars, waitVars, hookVars, sendVars, concVars, mwVars>>

\* updateMessageStatus(messageId, status): message.status is assigned before
\* the statusChanged notification reads it as `previous`
StatusNotifications(messageId, status) ==
    <<Emit("statusChanged", [messageId |-> messageId, status |-> status,
                             previous |-> status])>>
        \o (IF status = "sent"
            THEN <<Emit("messageDelivered", [messageId |-> messageId])>>
            ELSE IF status \in {"failed", "timeout"}
            THEN <<Emit("messageFailed", [messageId |-> messageId])>>
            ELSE <<>>)

\* waitForStatus settled as `o`: updateMessageStatus and the return
ConvWaitSettles ==
    /\ cpc = "waiting"
    /\ \E o \in ConvWaitOutcomes :
          IF ~o.ok
          THEN /\ convlog' = Append(convlog, Emit("error", [error |-> o.err]))
               /\ cresult' = CatchSettles(convListener, csend.text, o.err)
               /\ UNCHANGED cmessage
          ELSE /\ cmessage' = [cmessage EXCEPT !.status = o.status]
               /\ convlog' = convlog \o StatusNotifications(cmessage.messageId, o.status)
               /\ cresult' = CResolved(SendResult(cmessage.messageId, o.status = "sent",
                                                  csend.text, o.status, Undef, Undef))
    /\ cpc' = "done"
    /\ UNCHANGED <<convListener, csend, tracker>>
    /\ UNCHANGED <<retryVars, httpVars, waitVars, hookVars, sendVars, concVars, mwVars>>

\* options.terminalStatuses || ['sent', 'failed', 'timeout']
DefaultTerminalStatuses == {"sent", "failed", "timeout"}

\* the interval fires: its callback starts and awaits checkStatus.  The
\* interval fires again whether or not the earlier check has settled.
TrackerTick ==
    /\ tracker.interval
    /\ tracker.inflight < MaxInflight
    /\ tracker' = [tracker EXCEPT !.inflight = @ + 1]
    /\ UNCHANGED <<cpc, convListener, csend, cmessage, convlog, cresult>>
    /\ UNCHANGED <<retryVars, httpVars, waitVars, hookVars, sendVars, concVars, mwVars>>

\* a checkStatus of the interval callback settled as `o`: updateMessageStatus
\* and, for a terminal status, clearInterval and the delete from the map; a
\* failure is logged and the polling goes on
TrackerCheckSettles ==
    /\ tracker.inflight > 0
    /\ \E o \in StatusOutcomes :
          IF o.ok
          THEN /\ tracker.polls < MaxPolls
               /\ cmessage' = [cmessage EXCEPT !.status = o.status]
               /\ convlog' = convlog \o StatusNotifications(cmessage.messageId, o.status)
               /\ tracker' = [tracker EXCEPT
                                 !.inflight = @ - 1,
                                 !.polls = @ + 1,
                                 !.interval = IF o.status \in DefaultTerminalStatuses
                                              THEN FALSE ELSE @]
          ELSE /\ tracker' = [tracker EXCEPT !.inflight = @ - 1]
               /\ UNCHANGED <<cmessage, convlog>>
    /\ UNCHANGED <<cpc, convListener, csend, cresult>>
    /\ UNCHANGED <<retryVars, httpVars, waitVars, hookVars, sendVars, concVars, mwVars>>

\* the timer of `if (timeoutMs) setTimeout(...)` fires: clearInterval and the
\* delete from the map
TrackerTimeout ==
    /\ tracker.timer
    /\ tracker' = [tracker EXCEPT !.timer = FALSE, !.interval = FALSE]
    /\ UNCHANGED <<cpc, convListener, csend, cmessage, convlog, cresult>>
    /\ UNCHANGED <<retryVars, httpVars, waitVars, hookVars, sendVars, concVars, mwVars>>

----------------------------------------------------------------------------
(* Message service: SendMessageParams and validateMessageParams             *)

MAX_TEXT_LENGTH == 10000
MAX_ATTACHMENTS == 3
MIN_TIMEOUT == 5
MAX_PASSTHROUGH_LENGTH == 1000

\* EVENTS.MESSAGE: the names of the message service's notifications
MESSAGE_EVENTS ==
    {"send_start", "send_success", "send_error", "auth_start", "auth_success",
     "auth_error", "param_validation_fail"}

VALID_EFFECTS ==
    {"slam", "loud", "gentle", "invisibleInk", "echo", "spotlight", "balloons",
     "confetti", "love", "lasers", "fireworks", "shootingStar", "celebration"}
VALID_REACTIONS ==
    {"love", "like", "dislike", "laugh", "exclaim", "question",
     "-love", "-like", "-dislike", "-laugh", "-exclaim", "-question"}

\* The params a caller passes to sendLoopMessage.  "" stands for an absent
\* (or empty) string property: the code tests these with ! and && alone.
SendParams ==
    [recipient : {"", "+1234567890", "12345", "user@example.com"},
     group : {"", "group-1"},
     text : {"", "hi"},
     attachments : {<<>>},
     audio_message : {FALSE},
     media_url : {""},
     reaction : {"", "love", "wow"},
     message_id : {"", "msg-1"},
     effect : {"", "slam", "boom"},
     service : {"", "sms"},
     subject : {""},
     reply_to_id : {"", "msg-0"},
     timeout : {Absent},
     status_callback : {""},
     passthrough : {""},
     sender_name : {""}]

NoParams ==
    [recipient |-> "", group |-> "", text |-> "", attachments |-> <<>>,
     audio_message |-> FALSE, media_url |-> "", reaction |-> "", message_id |-> "",
     effect |-> "", service |-> "", subject |-> "", reply_to_id |-> "",
     timeout |-> Absent, status_callback |-> "", passthrough |-> "", sender_name |-> ""]

\* MessageServiceConfig.senderName of the service
SenderName == "sender@example.com"

\* API.ENDPOINTS.SEND
ENDPOINT_SEND == "/api/v1/message/send/"

\* the methods of the message service (and of the LoopSdk in front of it)
\* that hand their params to sendLoopMessage unchanged
SendMethods == {"sendLoopMessage", "sendReaction", "sendReply", "sendMessageWithEffect"}

FullParams_NoSender(params, senderName) == params

\* const fullParams = { ...params, sender_name: this.config.senderName }
FullParams(params, senderName) == [params EXCEPT !.sender_name = senderName]

\* the params of PARAM_VALIDATION_FAIL: sender_name redacted
Redacted(params) ==
    [params EXCEPT !.sender_name = IF params.sender_name # "" THEN "[REDACTED]" ELSE ""]

\* LoopMessageError.missingParamError(param)
missingParamErrorFor(param) ==
    LoopMessageError(Str("Missing required parameter: " \o param), Num(400),
                     Str("Required parameter missing in request"))

\* recipient.includes('@')
IncludesAt(recipient) == recipient \in {"user@example.com"}
\* /^\+[0-9]{5,15}$/.test(phone)
PhoneRegexTest(phone) == phone \in {"+1234567890"}
\* /^[^\s@]+@[^\s@]+\.[^\s@]+$/.test(email)
EmailRegexTest(email) == email \in {"user@example.com"}
\* new URL(url) does not throw
IsUrl(url) == url \in {"https://example.com/a.png", "http://example.com/a.png"}
\* url.startsWith('https://')
IsHttps(url) == url \in {"https://example.com/a.png"}

\* Each validator: the error it throws, NoError when it returns

validateMessageText(text) ==
    IF text = "" \/ text = " "
    THEN missingParamErrorFor("text")
    ELSE IF Len(text) > MAX_TEXT_LENGTH
         THEN invalidParamError("text", "Text exceeds maximum length")
         ELSE NoError

validateRecipient(recipient) ==
    IF recipient = "" THEN NoError
    ELSE IF IncludesAt(recipient)
         THEN IF EmailRegexTest(recipient) THEN NoError
              ELSE invalidParamError("recipient", "Invalid email format")
         ELSE IF PhoneRegexTest(recipient) THEN NoError
              ELSE invalidParamError("recipient",
                                     "Phone number must start with + and contain 5-15 digits")

validateUrl(url, paramName) ==
    IF ~IsUrl(url) THEN invalidParamError(paramName, "Invalid URL format")
    ELSE IF ~IsHttps(url) THEN invalidParamError(paramName, "URL must use HTTPS protocol")
         ELSE NoError

validateAttachments(attachments) ==
    IF Len(attachments) = 0 THEN NoError
    ELSE IF Len(attachments) > MAX_ATTACHMENTS
         THEN invalidParamError("attachments", "Maximum attachments allowed")
         ELSE IF \E i \in 1..Len(attachments) : validateUrl(attachments[i], "attachments") # NoError
              THEN LET first == CHOOSE i \in 1..Len(attachments) :
                                   /\ validateUrl(attachments[i], "attachments") # NoError
                                   /\ \A j \in 1..(i - 1) :
                                         validateUrl(attachments[j], "attachments") = NoError
                   IN  validateUrl(attachments[first], "attachments")
              ELSE NoError

validateMessageEffect(effect) ==
    IF effect = "" \/ effect \in VALID_EFFECTS THEN NoError
    ELSE invalidParamError("effect", "Invalid effect")

validateMessageReaction(reaction) ==
    IF reaction = "" \/ reaction \in VALID_REACTIONS THEN NoError
    ELSE invalidParamError("reaction", "Invalid reaction")

validatePassthrough(passthrough) ==
    IF passthrough # "" /\ Len(passthrough) > MAX_PASSTHROUGH_LENGTH
    THEN invalidParamError("passthrough", "Passthrough exceeds maximum length")
    ELSE NoError

\* the first error in a sequence of check results (NoError when none)
RECURSIVE FirstError(_)
FirstError(checks) ==
    IF checks = <<>> THEN NoError
    ELSE IF Head(checks) # NoError THEN Head(checks)
         ELSE FirstError(Tail(checks))


When(cond, error) == IF cond THEN error ELSE NoError

validateMessageParams_FieldsOnly(p) ==
    FirstError(<<
        validateMessageText(p.text),
        validateRecipient(p.recipient),
        validateMessageEffect(p.effect),
        validateMessageReaction(p.reaction)>>)

\* private validateMessageParams(params): the LoopMessageError it throws,
\* the checks in the order of the code, NoError when it returns
validateMessageParams(p) ==
    FirstError(<<
        When(p.recipient = "" /\ p.group = "", missingParamErrorFor("recipient or group")),
        When(p.recipient # "" /\ p.group # "",
             invalidParamError("recipient and group", "Provide either recipient or group, not both")),
        validateMessageText(p.text),
        validateRecipient(p.recipient),
        validateAttachments(p.attachments),
        When(p.audio_message /\ p.media_url = "",
             missingParamErrorFor("media_url for audio message")),
        When(p.reaction # "" /\ p.message_id = "",
             missingParamErrorFor("message_id for reaction")),
        When(p.effect # "" /\ p.reaction # "",
             invalidParamError("effect and reaction", "Cannot use both effect and reaction in the same request")),
        validateMessageEffect(p.effect),
        validateMessageReaction(p.reaction),
        When(p.service = "sms" /\ (p.subject # "" \/ p.effect # "" \/ p.reply_to_id # ""),
             invalidParamError("service",
                               "SMS does not support subject, effect, or reply_to_id parameters")),
        When(p.service = "sms" /\ p.recipient # "" /\ IncludesAt(p.recipient),
             invalidParamError("recipient", "Cannot send SMS to an email address")),
        When(p.service = "sms" /\ p.group # "",
             invalidParamError("group", "Cannot send SMS to a group")),
        When(p.timeout.given /\ p.timeout.v < MIN_TIMEOUT,
             invalidParamError("timeout", "Timeout must be at least 5 seconds")),
        When(p.status_callback # "", validateUrl(p.status_callback, "status_callback")),
        When(p.passthrough # "", validatePassthrough(p.passthrough))>>)

SendIdle ==
    /\ spc = "idle"
    /\ svia = ""
    /\ sparams = NoParams
    /\ slog = <<>>
    /\ sresult = Pending

----------------------------------------------------------------------------
(* HTTP client: LoopHttpClient.get / LoopHttpClient.post                    *)

\* The AxiosError shapes of the transport.  "legacy": neither error.code nor
\* error.status are set for an HTTP error status; "coded": error.code is
\* ERR_BAD_REQUEST / ERR_BAD_RESPONSE; "codedWithStatus": error.status is the
\* response status as well.
AxiosBuilds == {"legacy", "coded", "codedWithStatus"}

HttpStatuses == {400, 401, 403, 404, 429, 500}
ApiMessages == {Undef, Str("server says no")}
ApiCodes == {Undef, Num(1009)}

\* The transport rejects a request that got an HTTP error status
AxiosHttpError(build, st, m, c) ==
    MkError(IF build = "legacy" THEN "Error" ELSE "AxiosError",
            IF build = "legacy" THEN "Error" ELSE "AxiosError",
            IF build = "legacy" THEN Undef
            ELSE IF st < 500 THEN Str("ERR_BAD_REQUEST") ELSE Str("ERR_BAD_RESPONSE"),
            IF build = "codedWithStatus" THEN Num(st) ELSE Undef,
            Str("Request failed with status code"), Undef, TRUE, Response(st, m, c))

\* The transport rejects a request that got no response at all
AxiosNetworkError(build) ==
    MkError(IF build = "legacy" THEN "Error" ELSE "AxiosError",
            IF build = "legacy" THEN "Error" ELSE "AxiosError",
            Str("ECONNREFUSED"), Undef, Str("connect ECONNREFUSED"), Undef, TRUE,
            NoResponse)

\* Something that is no AxiosError is thrown inside the transport call
PlainError ==
    MkError("Error", "Error", Undef, Undef, Str("Network Error"), Undef, FALSE, NoResponse)

TransportErrors(build) ==
    {AxiosHttpError(build, st, m, c) : st \in HttpStatuses, m \in ApiMessages, c \in ApiCodes}
        \cup {AxiosNetworkError(build), PlainError}

\* the decoded response bodies (response.data) of successful requests
ResponseBodies == {1, 2}

TransportOutcomes(build) ==
    {Success(body) : body \in ResponseBodies} \cup {Failure(e) : e \in TransportErrors(build)}

HttpDefaultNonRetryable == {Num(400), Num(401), Num(403), Num(404)}

NoRequest ==
    [method |-> "none", url |-> "", data |-> NoParams,
     shouldRetry |-> Absent, maxRetries |-> Absent,
     baseDelay |-> Absent, nonRetryableErrorCodes |-> AbsentList]

\* the url, data and config a caller passes to get / post
RequestConfigs ==
    [method : {"none"},
     url : {"/api/v1/message/status/msg-123/"},
     data : {NoParams},
     shouldRetry : {Absent, Given(1), Given(0)},
     maxRetries : {Absent} \cup {Given(n) : n \in 0..MaxRetriesBound},
     baseDelay : {Absent, Given(100)},
     nonRetryableErrorCodes : {AbsentList, Given({Num(404)}), Given({})}]

\* const { shouldRetry = true, maxRetries = 3, baseDelay = 500, ...axiosConfig } = config || {}
ShouldRetryOf(c) == IF c.shouldRetry.given THEN c.shouldRetry.v = 1 ELSE TRUE
HttpMaxRetriesOf(c) == IF c.maxRetries.given THEN c.maxRetries.v ELSE HttpDefaultMaxRetries
HttpBaseDelayOf(c) == IF c.baseDelay.given THEN c.baseDelay.v ELSE HttpDefaultBaseDelay

\* nonRetryableErrors: config?.nonRetryableErrorCodes || [400, 401, 403, 404]
HttpNonRetryableOf(c) ==
    IF c.nonRetryableErrorCodes.given THEN c.nonRetryableErrorCodes.v
    ELSE HttpDefaultNonRetryable

\* the options get / post hand to retryWithExponentialBackoff
HttpRetryOptions(c) ==
    [maxRetries |-> Given(HttpMaxRetriesOf(c)), baseDelay |-> Given(HttpBaseDelayOf(c)),
     nonRetryableErrors |-> Given(HttpNonRetryableOf(c)),
     hasOnRetry |-> FALSE, onError |-> "classify"]

HttpIdle ==
    /\ hpc = "idle"
    /\ hreq = NoRequest
    /\ requests = 0
    /\ responded = <<>>
    /\ hresult = Pending

\* get / post is entered with config c
HttpCall(method, c) ==
    /\ hpc = "idle"
    /\ UNCHANGED <<waitVars, hookVars, concVars, mwVars, convVars>>
    /\ hreq' = [c EXCEPT !.method = method]
    /\ IF ShouldRetryOf(c)
       THEN /\ hpc' = "retry"
            /\ RetryEnter(HttpRetryOptions(c))
       ELSE /\ hpc' = "direct"
            /\ UNCHANGED retryVars
    /\ UNCHANGED <<axiosBuild, requests, responded, hresult>>

\* async get<T>(url, config)
HttpGet ==
    /\ hpc = "idle"
    /\ \E c \in RequestConfigs : HttpCall("get", c)
    /\ UNCHANGED sendVars

\* async post<T>(url, data, config)
HttpPost ==
    /\ hpc = "idle"
    /\ \E c \in RequestConfigs : HttpCall("post", c)
    /\ UNCHANGED sendVars

\* if (!shouldRetry) { const response = await this.client.get(url, axiosConfig);
\*                     return response.data; }
HttpDirect ==
    /\ hpc = "direct"
    /\ \E o \in TransportOutcomes(axiosBuild) :
          /\ hresult' = IF o.ok THEN Resolved(o.value)
                        ELSE Rejected([o.err EXCEPT !.id = requests + 1])
          /\ responded' = IF o.ok THEN Append(responded, o.value) ELSE responded
    /\ requests' = requests + 1
    /\ hpc' = "done"
    /\ UNCHANGED <<axiosBuild, hreq>>
    /\ UNCHANGED retryVars
    /\ UNCHANGED <<waitVars, hookVars, sendVars, concVars, mwVars, convVars>>

\* The operation handed to the retry engine issues one request; get / post
\* return the retry call's promise.
HttpRetryRequest ==
    /\ hpc = "retry"
    /\ \E o \in TransportOutcomes(axiosBuild) :
          /\ RetryAttempt(o)
          /\ responded' = IF o.ok THEN Append(responded, o.value) ELSE responded
    /\ requests' = requests + 1
    /\ hpc' = IF rpc' = "done" THEN "done" ELSE hpc
    /\ hresult' = IF rpc' = "done" THEN rresult' ELSE hresult
    /\ UNCHANGED <<axiosBuild, hreq>>
    /\ UNCHANGED <<waitVars, hookVars, sendVars, concVars, mwVars, convVars>>

HttpRetryTimer ==
    /\ hpc = "retry"
    /\ RetryBackoff
    /\ UNCHANGED httpVars
    /\ UNCHANGED <<waitVars, hookVars, sendVars, concVars, mwVars, convVars>>

InitHttp ==
    /\ HookIdle
    /\ SendIdle
    /\ RetryIdle
    /\ HttpIdle
    /\ WaitIdle
    /\ ConcIdle
    /\ MiddlewareIdle
    /\ ConvIdle
    /\ axiosBuild \in AxiosBuilds

NextHttp == HttpGet \/ HttpPost \/ HttpDirect \/ HttpRetryRequest \/ HttpRetryTimer

SpecHttp == InitHttp /\ [][NextHttp]_vars

----------------------------------------------------------------------------
(* Direct callers of retryWithExponentialBackoff                            *)

ErrorCodes == {Undef, Num(0), Num(400), Num(401), Num(403), Num(404), Num(429),
               Str("ECONNRESET")}
ErrorStatuses == {Undef, Num(400), Num(401), Num(403), Num(404), Num(503)}
ErrorNames == {"Error", "TypeError"}

\* the errors an operation may throw
OperationErrors ==
    {MkError(n, n, c, st, Str("operation failed"), Undef, FALSE, NoResponse) :
        n \in ErrorNames, c \in ErrorCodes, st \in ErrorStatuses}

OperationOutcomes == {Success(1)} \cup {Failure(e) : e \in OperationErrors}

\* the options a caller passes
RetryOptions ==
    [maxRetries : {Absent} \cup {Given(n) : n \in 0..MaxRetriesBound},
     baseDelay : {Absent, Given(100)},
     nonRetryableErrors : {AbsentList, Given(HttpDefaultNonRetryable),
                           Given({Num(404), Str("TypeError")})},
     hasOnRetry : BOOLEAN,
     onError : {"none", "transform"}]

RetryCall ==
    /\ \E options \in RetryOptions : RetryEnter(options)
    /\ UNCHANGED httpVars
    /\ UNCHANGED <<waitVars, hookVars, sendVars, concVars, mwVars, convVars>>

RetryOperation ==
    /\ \E o \in OperationOutcomes : RetryAttempt(o)
    /\ UNCHANGED httpVars
    /\ UNCHANGED <<waitVars, hookVars, sendVars, concVars, mwVars, convVars>>

RetryTimer ==
    /\ RetryBackoff
    /\ UNCHANGED httpVars
    /\ UNCHANGED <<waitVars, hookVars, sendVars, concVars, mwVars, convVars>>

InitRetry ==
    /\ HookIdle
    /\ SendIdle
    /\ RetryIdle
    /\ HttpIdle
    /\ WaitIdle
    /\ ConcIdle
    /\ MiddlewareIdle
    /\ ConvIdle
    /\ axiosBuild = "coded"

NextRetry == RetryCall \/ RetryOperation \/ RetryTimer

SpecRetry == InitRetry /\ [][NextRetry]_vars

----------------------------------------------------------------------------
(* Callers of waitForStatus                                                 *)

InitWait ==
    /\ HookIdle
    /\ SendIdle
    /\ RetryIdle
    /\ HttpIdle
    /\ axiosBuild = "coded"
    /\ WaitIdle
    /\ ConcIdle
    /\ MiddlewareIdle
    /\ ConvIdle

NextWait == WaitForStatus \/ WaitCheckSettles \/ WaitTimerFires \/ WaitFinalSettles

SpecWait == InitWait /\ [][NextWait]_vars

InitConcurrent == InitWait

NextConcurrent ==
    ConcWaitForStatus \/ ConcCheckSettles \/ ConcTimerFires \/ ConcFinalSettles

SpecConcurrent == InitConcurrent /\ [][NextConcurrent]_vars

\* Every status request settles and every timer fires: the awaits of
\* waitForStatus are on statusClient.get and on setTimeout
SpecWaitFair ==
    /\ SpecWait
    /\ WF_vars(WaitCheckSettles)
    /\ WF_vars(WaitTimerFires)
    /\ WF_vars(WaitFinalSettles)

----------------------------------------------------------------------------
(* Callers of LoopSdk.parseWebhook                                          *)

InitWebhook ==
    /\ RetryIdle
    /\ HttpIdle
    /\ axiosBuild = "coded"
    /\ WaitIdle
    /\ ConcIdle
    /\ MiddlewareIdle
    /\ ConvIdle
    /\ SendIdle
    /\ HookIdle

NextWebhook == NewLoopSdk \/ SdkGetWebhookMiddleware \/ SdkOn \/ SdkParseWebhook

SpecWebhook == InitWebhook /\ [][NextWebhook]_vars

----------------------------------------------------------------------------
(* Requests to the Express middleware                                       *)

InitMiddleware ==
    /\ RetryIdle
    /\ HttpIdle
    /\ axiosBuild = "coded"
    /\ WaitIdle
    /\ ConcIdle
    /\ HookIdle
    /\ SendIdle
    /\ mwOptions \in MiddlewareOptions
    /\ MiddlewareFresh
    /\ ConvIdle

NextMiddleware == MiddlewareRequest \/ MiddlewareCallbackResumes

SpecMiddleware == InitMiddleware /\ [][NextMiddleware]_vars

----------------------------------------------------------------------------
(* Callers of the conversation service                                      *)

InitConversation == InitWait

NextConversation ==
    \/ ConvOn
    \/ ConvSendMessage
    \/ ConvSendSettles
    \/ ConvWaitSettles
    \/ TrackerTick
    \/ TrackerCheckSettles
    \/ TrackerTimeout

SpecConversation == InitConversation /\ [][NextConversation]_vars

\* Every promise the service awaits settles, the interval keeps firing while
\* it is set, and the timeout timer fires
SpecConversationFair ==
    /\ SpecConversation
    /\ WF_vars(ConvSendSettles)
    /\ WF_vars(ConvWaitSettles)
    /\ WF_vars(TrackerTick)
    /\ WF_vars(TrackerCheckSettles)
    /\ WF_vars(TrackerTimeout)

----------------------------------------------------------------------------
(* Message service: LoopMessageService.sendLoopMessage (LoopSdk.sendMessage *)
(* hands its params to it unchanged)                                        *)

\* this.messageClient.post(API.ENDPOINTS.SEND, fullParams): no config
SendRequest(fullParams) ==
    [method |-> "none", url |-> ENDPOINT_SEND, data |-> fullParams,
     shouldRetry |-> Absent, maxRetries |-> Absent,
     baseDelay |-> Absent, nonRetryableErrorCodes |-> AbsentList]

\* async sendLoopMessage(params), up to its await of messageClient.post;
\* sendReaction, sendReply and sendMessageWithEffect are this call
SendLoopMessage ==
    /\ spc = "idle"
    /\ hpc = "idle"
    /\ \E via \in SendMethods, p \in SendParams :
          /\ svia' = via
          /\ sparams' = p
          /\ LET fullParams == FullParams(p, SenderName)
                 error == validateMessageParams(fullParams)
             IN  IF error # NoError
                 THEN /\ slog' = <<Emit("param_validation_fail",
                                        [error |-> error, params |-> Redacted(fullParams)])>>
                      /\ sresult' = Rejected(error)
                      /\ spc' = "done"
                      /\ UNCHANGED <<retryVars, httpVars, waitVars, hookVars, concVars, mwVars, convVars>>
                 ELSE /\ slog' = <<Emit("send_start", [params |-> p])>>
                      /\ spc' = "posting"
                      /\ HttpCall("post", SendRequest(fullParams))
                      /\ UNCHANGED sresult

\* sendLoopMessage after messageClient.post settled
SendSettles ==
    /\ spc = "posting"
    /\ hpc = "done"
    /\ slog' = Append(slog, IF hresult.kind = "resolved"
                            THEN Emit("send_success", [response |-> hresult.value])
                            ELSE Emit("send_error", [error |-> hresult.error,
                                                     params |-> sparams]))
    /\ sresult' = hresult
    /\ spc' = "done"
    /\ UNCHANGED <<svia, sparams>>
    /\ UNCHANGED <<retryVars, httpVars, waitVars, hookVars, concVars, mwVars, convVars>>

InitSend ==
    /\ RetryIdle
    /\ HttpIdle
    /\ axiosBuild = "coded"
    /\ WaitIdle
    /\ ConcIdle
    /\ MiddlewareIdle
    /\ ConvIdle
    /\ HookIdle
    /\ SendIdle

NextSend == SendLoopMessage \/ HttpRetryRequest \/ HttpRetryTimer \/ SendSettles

SpecSend == InitSend /\ [][NextSend]_vars

----------------------------------------------------------------------------
(* Properties of the retry engine and of the HTTP client                    *)

NonRetryableStatuses == {400, 401, 403, 404}

\* get / post was called with retry enabled and no nonRetryableErrorCodes
HttpRetryingWithDefaultSet ==
    /\ hpc \in {"retry", "done"}
    /\ ShouldRetryOf(hreq)
    /\ ~hreq.nonRetryableErrorCodes.given

\* get / post was called with no retry setting of its own at all
HttpDefaultConfig ==
    /\ HttpRetryingWithDefaultSet
    /\ ~hreq.shouldRetry.given
    /\ ~hreq.maxRetries.given
    /\ ~hreq.baseDelay.given

\* C1: when the API answers the first request of a get / post call (retry
\* enabled, default non-retryable set) with status 400, 401, 403 or 404, the
\* client has issued exactly one request, has waited for no backoff delay and
\* the call is rejected with the classified error of that status.
C1_NonRetryableStatusSurfacesAtOnce ==
    (/\ HttpRetryingWithDefaultSet
     /\ lastError.id = 1
     /\ lastError.response.has
     /\ lastError.response.status \in NonRetryableStatuses)
    => (/\ hpc = "done"
        /\ requests = 1
        /\ Delays(rlog) = <<>>
        /\ hresult = Rejected(handleRequestError(lastError)))

\* C2: one call of retryWithExponentialBackoff with maxRetries = n invokes
\* the operation at most n + 1 times, whatever the outcomes are.
C2_AtMostMaxRetriesPlusOne ==
    Invocations(rlog) <= MaxRetriesOf(ropts) + 1

C2_Witness ==
    /\ rpc = "done"
    /\ ropts.maxRetries = Given(2)
    /\ Invocations(rlog) = 3

\* C3: when every invocation failed with a retryable error (the call gave up
\* on an error that is not in the non-retryable set, so that only the retry
\* ceiling can have stopped it), the operation was invoked exactly
\* maxRetries + 1 times and the delay before the i-th retry was
\* baseDelay * 2^(i-1) exactly.
C3_RetryableFailuresBackOffGeometrically ==
    (/\ rpc = "done"
     /\ rresult.kind = "rejected"
     /\ ~isNonRetryableError(lastError, NonRetryableOf(ropts)))
    => (/\ Invocations(rlog) = MaxRetriesOf(ropts) + 1
        /\ Len(Delays(rlog)) = MaxRetriesOf(ropts)
        /\ \A i \in 1..Len(Delays(rlog)) :
              Delays(rlog)[i].d = BaseDelayOf(ropts) * Pow2(i - 1))

C3_Witness ==
    /\ rpc = "done"
    /\ rresult.kind = "rejected"
    /\ ~ropts.maxRetries.given
    /\ ropts.baseDelay = Given(100)
    /\ ropts.nonRetryableErrors = Given(HttpDefaultNonRetryable)
    /\ lastError.code = Num(429)
    /\ Invocations(rlog) = 4
    /\ Delays(rlog)[3].d = 400

\* the invocation that threw lastError failed with code c: error.code is c,
\* or error.code is missing and error.status is c
FailedWithCode(c) ==
    /\ lastError # NoError
    /\ \/ lastError.code = Num(c)
       \/ lastError.code = Undef /\ lastError.status = Num(c)

\* C4: for c in {400, 401, 403, 404} in the non-retryable set, a failure with
\* code c ends the call: the failing invocation is the last one, no onRetry
\* is called for it and no delay is waited after it.
C4_NonRetryableCodeStopsRetrying ==
    \A c \in NonRetryableStatuses :
        (Num(c) \in NonRetryableOf(ropts) /\ FailedWithCode(c))
        => (/\ rpc = "done"
            /\ rresult.kind = "rejected"
            /\ Invocations(rlog) = lastError.id
            /\ Len(Delays(rlog)) = lastError.id - 1
            /\ \A i \in 1..Len(rlog) :
                  rlog[i].k = "onRetry" => rlog[i].e # lastError.id)

C4_Witness ==
    /\ rpc = "done"
    /\ ropts.maxRetries = Given(2)
    /\ Num(403) \in NonRetryableOf(ropts)
    /\ lastError.id = 1
    /\ lastError.code = Undef
    /\ lastError.status = Num(403)
    /\ Invocations(rlog) = 1

\* C5: called without onError, a retry call that gives up rejects with the
\* very error the last invocation of the operation threw.
C5_RejectsWithLastError ==
    (rpc = "done" /\ rresult.kind = "rejected" /\ ropts.onError = "none")
    => (/\ rresult.error = lastError
        /\ lastError.id = Invocations(rlog))

C5_Witness ==
    /\ rpc = "done"
    /\ rresult.kind = "rejected"
    /\ ropts.onError = "none"
    /\ Invocations(rlog) = 3
    /\ rresult.error.id = 3

\* C6: every failing get / post call rejects with a classified error, with
\* retry enabled and with shouldRetry: false.
C6_EveryFailureIsClassified ==
    (hpc = "done" /\ hresult.kind = "rejected") => IsClassified(hresult.error)

C8_RateLimitIsRetried ==
    (/\ HttpDefaultConfig
     /\ lastError.id = requests
     /\ lastError.response.has
     /\ lastError.response.status = 429)
    => IF requests <= HttpDefaultMaxRetries
       THEN /\ hpc = "retry"
            /\ rpc \in {"backoff", "attempt"}
            /\ Len(Delays(rlog)) = requests
            /\ Delays(rlog)[requests].d = HttpDefaultBaseDelay * Pow2(requests - 1)
       ELSE /\ hpc = "done"
            /\ requests = HttpDefaultMaxRetries + 1
            /\ hresult.kind = "rejected"
            /\ IsClassified(hresult.error)
            /\ hresult.error.of = lastError.id

C8_Witness ==
    /\ HttpDefaultConfig
    /\ hpc = "done"
    /\ hresult.kind = "rejected"
    /\ requests = 4
    /\ Len(Delays(rlog)) = 3
    /\ lastError.response.status = 429
    /\ hresult.error.code = Num(429)

----------------------------------------------------------------------------
(* Properties of the status poller                                          *)

RECURSIVE ChangesAmong(_, _)
\* one status_change per adjacent pair of differing statuses among the
\* responses R, from the pair (R[i-1], R[i]) on
ChangesAmong(R, i) ==
    IF i > Len(R) THEN <<>>
    ELSE (IF R[i - 1].new # R[i].new
          THEN <<WEv("status_change", R[i].a, R[i - 1].new, R[i].new, 0)>>
          ELSE <<>>) \o ChangesAmong(R, i + 1)

\* the k responses so far came from the loop of waitForStatus, and none
\* before the k-th was in the target set or failed
KthResponseInLoop(k) ==
    /\ k = Len(Responses(wlog))
    /\ k >= 1
    /\ k <= wargs.maxAttempts
    /\ \A i \in 1..(k - 1) :
          /\ Responses(wlog)[i].new \notin wargs.targetStatuses
          /\ Responses(wlog)[i].new # "failed"

\* C9: when the k-th status check (k <= maxAttempts) returns a status of the
\* target set, waitForStatus resolves with that response after exactly k
\* status checks, and has emitted one status_change (old, new) for each
\* adjacent pair of differing statuses among the k responses, in order, and
\* none for the first response.
C9_ResolvesOnTargetStatus ==
    \A k \in 1..(MaxAttemptsBound + 1) :
        (KthResponseInLoop(k) /\ Responses(wlog)[k].new \in wargs.targetStatuses)
        => (/\ wpc = "done"
            /\ wresult = WResolved([id |-> k, status |-> Responses(wlog)[k].new])
            /\ StatusChecks(wlog) = k
            /\ StatusChanges(wlog) = ChangesAmong(Responses(wlog), 2))

C9_Witness ==
    /\ wpc = "done"
    /\ wargs.targetStatuses = {"sent"}
    /\ wargs.maxAttempts = 3
    /\ wresult = WResolved([id |-> 3, status |-> "sent"])
    /\ Len(Responses(wlog)) = 3
    /\ Responses(wlog)[1].new = "processing"
    /\ Responses(wlog)[2].new = "scheduled"
    /\ Len(StatusChanges(wlog)) = 2
    /\ StatusChanges(wlog)[1].old = "processing"
    /\ StatusChanges(wlog)[2].new = "sent"

\* C10: when the k-th status check (k <= maxAttempts) is the first to return
\* failed, waitForStatus resolves with that failed response after exactly k
\* status checks, whether or not failed is in the target set.
C10_ResolvesOnFailed ==
    \A k \in 1..(MaxAttemptsBound + 1) :
        (KthResponseInLoop(k) /\ Responses(wlog)[k].new = "failed")
        => (/\ wpc = "done"
            /\ wresult = WResolved([id |-> k, status |-> "failed"])
            /\ StatusChecks(wlog) = k)

C10_Witness ==
    /\ wpc = "done"
    /\ "failed" \notin wargs.targetStatuses
    /\ wresult = WResolved([id |-> 2, status |-> "failed"])
    /\ StatusChecks(wlog) = 2
    /\ Responses(wlog)[1].new = "processing"

\* the time since waitForStatus was called
Elapsed == now - startTime

\* a status check is awaited; the clock moves when it settles, so Elapsed is
\* the elapsed time at which the check was started
CheckInFlight == wpc \in {"checking", "final"}

\* C11: with timeoutMs > 0 the timeout is a hard stop whatever maxAttempts
\* is: no status check is started once the elapsed time exceeds timeoutMs.
C11_NoCheckStartsAfterTimeout ==
    (wargs.timeoutMs > 0 /\ CheckInFlight) => Elapsed <= wargs.timeoutMs

\* every status check so far returned the same status, which is neither in
\* the target set nor failed
SameStatusSource ==
    /\ wpc # "idle"
    /\ wargs.messageId # ""
    /\ WEventsOf(wlog, "status_error") = <<>>
    /\ \A i \in 1..Len(Responses(wlog)) :
          /\ Responses(wlog)[i].new = Responses(wlog)[1].new
          /\ ~IsTerminal(wargs.targetStatuses, Responses(wlog)[i].new)

\* C12: against a source that always returns the same non-terminal status,
\* with timeoutMs > 0 and (maxAttempts - 1) * delayMs > timeoutMs, the call
\* never reaches the final check and never resolves; when it settles it is
\* rejected with the code-408 LoopMessageError after exactly one timeout
\* notification carrying the message id, the target set, the elapsed time
\* and the number of checks made.
C12_SameStatusTimesOut ==
    (/\ SameStatusSource
     /\ wargs.timeoutMs > 0
     /\ (wargs.maxAttempts - 1) * wargs.delayMs > wargs.timeoutMs)
    => (/\ wpc # "final"
        /\ wresult.kind # "resolved"
        /\ wpc = "done" =>
              /\ wresult = WRejected(timeoutError)
              /\ wresult.error.code = Num(408)
              /\ IsClassified(wresult.error)
              /\ WEventsOf(wlog, "status_timeout")
                    = <<TimeoutEv(wargs, StatusChecks(wlog), Elapsed)>>
              /\ Elapsed > wargs.timeoutMs)

C12_Witness ==
    /\ SameStatusSource
    /\ wargs.timeoutMs > 0
    /\ (wargs.maxAttempts - 1) * wargs.delayMs > wargs.timeoutMs
    /\ wpc = "done"
    /\ wresult.error.code = Num(408)
    /\ StatusChecks(wlog) = 2
    /\ Responses(wlog)[2].new = "processing"
    /\ Len(WEventsOf(wlog, "status_timeout")) = 1

\* none of the first maxAttempts responses is in the target set or failed
AttemptsExhausted ==
    /\ wpc # "idle"
    /\ wargs.messageId # ""
    /\ Len(Responses(wlog)) >= wargs.maxAttempts
    /\ \A i \in 1..wargs.maxAttempts :
          ~IsTerminal(wargs.targetStatuses, Responses(wlog)[i].new)

LastCheckFailed == wresult.kind = "rejected" /\ wresult.error # timeoutError

\* C14 as stated: whenever a status check inside waitForStatus has failed,
\* no further check is started, the call is rejected with that error, and
\* for the failed check a STATUS_CHECK notification and then a STATUS_ERROR
\* notification were emitted.
C14_FailedCheckNotifiesAndPropagates ==
    LastCheckFailed
    => LET id == wresult.error.id
       IN  /\ wpc = "done"
           /\ StatusChecks(wlog) = id
           /\ \E i, j \in 1..Len(wlog) :
                 /\ i < j
                 /\ wlog[i] = WEv("check", id, "null", "null", 0)
                 /\ wlog[j] = WEv("status_error", id, "null", "null", 0)
                 /\ j = Len(wlog)

\* C14 amended: the same for every status check that was given a message
\* id; a check without a message id throws the missing-parameter error after
\* an 'error' event alone, and the call is rejected with it.
C14_FailedRequestNotifiesAndPropagates ==
    LastCheckFailed
    => LET id == wresult.error.id
       IN  /\ wpc = "done"
           /\ StatusChecks(wlog) = id
           /\ IF wargs.messageId # ""
              THEN \E i, j \in 1..Len(wlog) :
                      /\ i < j
                      /\ wlog[i] = WEv("check", id, "null", "null", 0)
                      /\ wlog[j] = WEv("status_error", id, "null", "null", 0)
                      /\ j = Len(wlog)
              ELSE /\ wresult.error = [missingParamError EXCEPT !.id = id]
                   /\ wlog = <<WEv("error_param", id, "null", "null", 0)>>

C14_Witness ==
    /\ LastCheckFailed
    /\ wargs.messageId # ""
    /\ wresult.error.id = 2
    /\ wresult.error.code = Num(404)
    /\ StatusChecks(wlog) = 2
    /\ wlog[Len(wlog)].k = "status_error"

----------------------------------------------------------------------------
(* Properties of the webhook verifier and of the LoopSdk facade             *)

\* parseWebhook of a configured handler has been called
WebhookCalled == secretKey # "" /\ whresult.kind # "none"

\* the signature of the latest call is the hex HMAC-SHA256 of its body
\* under the configured secret
CorrectlySigned == whcall.signature = HmacSha256Hex(secretKey, whcall.body)

\* the body of the latest call is JSON with a type and a timestamp
BodyComplete ==
    /\ JSONParse(whcall.body).ok
    /\ JSONParse(whcall.body).value.json = "object"
    /\ Truthy(JSONParse(whcall.body).value.type)
    /\ Truthy(JSONParse(whcall.body).value.timestamp)

\* C15: a call signed with the hex HMAC-SHA256 of the body whose body is
\* JSON with type and timestamp returns the parsed payload; a call with a
\* non-empty signature that differs from that HMAC throws code 401, never
\* 400, whatever the body; a call with an absent or empty signature throws
\* code 400.
C15_SignatureDecides ==
    WebhookCalled
    => /\ (CorrectlySigned /\ BodyComplete)
             => whresult = Returned(JSONParse(whcall.body).value)
       /\ (SigTruthy(whcall.signature) /\ ~CorrectlySigned)
             => /\ whresult.kind = "threw"
                /\ IsClassified(whresult.error)
                /\ whresult.error.code = Num(401)
       /\ ~SigTruthy(whcall.signature)
             => /\ whresult.kind = "threw"
                /\ IsClassified(whresult.error)
                /\ whresult.error.code = Num(400)

C15_Witness ==
    /\ WebhookCalled
    /\ whcall.body = BodyTruncated
    /\ whcall.signature = HmacSha256Hex("whsec-2", BodyTruncated)
    /\ whresult.error.code = Num(401)

\* the steps that must follow a successful signature comparison
AfterVerification(step) ==
    \/ step.k = "parse"
    \/ step.k = "emit" /\ step.name \in {"webhook_verified", "webhook"} \cup WEBHOOK_TYPES

\* C16: the body is parsed, webhook_verified is emitted and the type-scoped
\* and generic payload notifications are dispatched only after the signature
\* comparison has succeeded; a call that fails verification does none of
\* these and returns no payload.
C16_NothingBeforeVerification ==
    WebhookCalled
    => /\ \A i \in 1..Len(whlog) :
             AfterVerification(whlog[i])
                => /\ CorrectlySigned
                   /\ \E j \in 1..(i - 1) : whlog[j] = CompareStep(TRUE)
       /\ whresult.kind = "returned"
             => \E j \in 1..Len(whlog) : whlog[j] = CompareStep(TRUE)
       /\ ~CorrectlySigned
             => /\ whresult.kind = "threw"
                /\ \A i \in 1..Len(whlog) : ~AfterVerification(whlog[i])

C16_Witness ==
    /\ WebhookCalled
    /\ ~CorrectlySigned
    /\ BodyComplete
    /\ whlog = <<Emit("webhook_received", [signaturePresent |-> TRUE]),
                 CompareStep(FALSE),
                 Emit("signature_error", [reason |-> "invalid signature"])>>

\* C17: a correctly signed body that is not valid JSON throws code 400 with
\* the 'invalid JSON' cause, and one that is JSON lacking type or timestamp
\* throws code 400 with the 'missing required fields' cause.
C17_MalformedAndIncompleteAreCode400 ==
    (WebhookCalled /\ CorrectlySigned /\ ~BodyComplete)
    => /\ whresult.kind = "threw"
       /\ IsClassified(whresult.error)
       /\ whresult.error.code = Num(400)
       /\ whresult.error.cause =
             IF JSONParse(whcall.body).ok
             THEN Str(WEBHOOK_MISSING_FIELDS)
             ELSE Str(WEBHOOK_INVALID_JSON)

\* the type-scoped and generic payload notifications of the latest call
PayloadNotifications == EmitsNamed(whlog, WEBHOOK_TYPES \cup {"webhook"})

\* C18: a successful parseWebhook dispatches exactly two payload
\* notifications, one under the payload's type and one generic 'webhook'
\* notification, each carrying the parsed payload, and returns that payload.
C18_ExactlyTwoPayloadNotifications ==
    (WebhookCalled /\ whresult.kind = "returned")
    => /\ whresult.payload = JSONParse(whcall.body).value
       /\ PayloadNotifications =
             <<Emit(whresult.payload.type.s, whresult.payload),
               Emit("webhook", whresult.payload)>>

\* C19: every notification the webhook handler emits during
\* LoopSdk.parseWebhook is re-emitted on the LoopSdk under the same name
\* with the same payload, and so reaches a listener registered on the
\* LoopSdk for that name.
C19_EveryNotificationReemitted ==
    WebhookCalled
    => /\ sdklog = Emits(whlog)
       /\ received = EmitsNamed(whlog, sdkListeners)

----------------------------------------------------------------------------
(* Properties of the message service                                        *)

\* the params have both recipient and group, neither of them, a reaction
\* without message_id, or both effect and reaction
ClaimedInvalid(p) ==
    \/ p.recipient # "" /\ p.group # ""
    \/ p.recipient = "" /\ p.group = ""
    \/ p.reaction # "" /\ p.message_id = ""
    \/ p.effect # "" /\ p.reaction # ""

\* C20: sendLoopMessage with params that have both recipient and group,
\* neither, a reaction without message_id, or both effect and reaction is
\* rejected with a code-400 LoopMessageError, no HTTP request is issued and
\* send_start is not emitted.
C20_InvalidParamsRejectedBeforeSend ==
    (spc # "idle" /\ ClaimedInvalid(sparams))
    => /\ spc = "done"
       /\ sresult.kind = "rejected"
       /\ IsClassified(sresult.error)
       /\ sresult.error.code = Num(400)
       /\ requests = 0
       /\ hpc = "idle"
       /\ EmitsNamed(slog, {"send_start"}) = <<>>

C20_Witness ==
    /\ spc = "done"
    /\ sparams.recipient = "+1234567890"
    /\ sparams.group = ""
    /\ sparams.text = "hi"
    /\ sparams.reaction = "love"
    /\ sparams.message_id = ""
    /\ sparams.effect = ""
    /\ sresult = Rejected(missingParamErrorFor("message_id for reaction"))
    /\ requests = 0

\* the first POST of the call was answered with a success body
FirstPostSucceeded ==
    /\ spc \in {"posting", "done"}
    /\ responded # <<>>
    /\ lastError = NoError

\* C21: for params that pass validation, when the first POST is answered
\* with a success body, exactly one POST to /api/v1/message/send/ is issued,
\* carrying the params plus the configured sender_name, and the call resolves
\* with exactly the decoded response body.
C21_OnePostResolvesWithBody ==
    /\ (spc # "idle" /\ validateMessageParams(sparams) = NoError)
          => /\ spc \in {"posting", "done"}
             /\ hreq.method = "post"
             /\ hreq.url = "/api/v1/message/send/"
             /\ hreq.data = [sparams EXCEPT !.sender_name = SenderName]
    /\ FirstPostSucceeded
          => /\ validateMessageParams(sparams) = NoError
             /\ requests = 1
             /\ Len(responded) = 1
             /\ hpc = "done"
             /\ hresult = Resolved(responded[1])
             /\ spc = "done"
                   => /\ sresult = Resolved(responded[1])
                      /\ slog[Len(slog)] = Emit("send_success", [response |-> responded[1]])

C21_Witness ==
    /\ FirstPostSucceeded
    /\ svia = "sendLoopMessage"
    /\ sparams.recipient = "+1234567890"
    /\ sparams.text = "hi"
    /\ spc = "done"
    /\ requests = 1
    /\ sresult = Resolved(2)

\* sendReaction is called as the README shows: a recipient, a message_id, a
\* valid reaction and text set to the empty string
ReadmeReactionCall ==
    /\ spc # "idle"
    /\ svia = "sendReaction"
    /\ sparams = [NoParams EXCEPT !.recipient = "+1234567890", !.text = "",
                                  !.message_id = "msg-1", !.reaction = "love"]

\* C22: sendReaction called as the README shows passes validation and one
\* POST is issued; when it is answered the call resolves with the response.
C22_ReadmeReactionIsSent ==
    ReadmeReactionCall
    => /\ EmitsNamed(slog, {"param_validation_fail"}) = <<>>
       /\ requests >= 1 \/ hpc = "retry"
       /\ (spc = "done" /\ lastError = NoError)
             => /\ requests = 1
                /\ sresult = Resolved(responded[1])

\* C23: a sendReply call whose params have no reply_to_id is rejected with a
\* validation error before any network call.
C23_ReplyRequiresReplyToId ==
    (spc # "idle" /\ svia = "sendReply" /\ sparams.reply_to_id = "")
    => /\ spc = "done"
       /\ sresult.kind = "rejected"
       /\ IsClassified(sresult.error)
       /\ sresult.error.code = Num(400)
       /\ requests = 0
       /\ hpc = "idle"

----------------------------------------------------------------------------
(* Properties of the onRetry callback                                       *)

\* C30: in a call that was given onRetry, the i-th call of onRetry (i from 1)
\* has the arguments (i, baseDelay * 2^(i-1), the error of the i-th
\* invocation), comes directly after the failed invocation it reports and
\* directly before the delay of that retry, and every delay has its onRetry
\* call; once the call has settled there is one onRetry call fewer than
\* invocations, so none for the failure that ended the call and none after a
\* success.
C30_OnRetryOncePerRetryBeforeDelay ==
    ropts.hasOnRetry
    => (/\ Len(OnRetryCalls(rlog)) = Len(Delays(rlog))
        /\ \A i \in 1..Len(OnRetryCalls(rlog)) :
              /\ OnRetryCalls(rlog)[i].a = i
              /\ OnRetryCalls(rlog)[i].d = BaseDelayOf(ropts) * Pow2(i - 1)
              /\ OnRetryCalls(rlog)[i].e = i
        /\ \A j \in 1..Len(rlog) :
              rlog[j].k = "onRetry"
              => (/\ j > 1
                  /\ rlog[j - 1] = Ev("op", rlog[j].e, 0, 0)
                  /\ j < Len(rlog)
                  /\ rlog[j + 1] = Ev("delay", 0, rlog[j].d, 0))
        /\ rpc = "done"
           => (/\ Len(OnRetryCalls(rlog)) = Invocations(rlog) - 1
               /\ rlog[Len(rlog)].k \in {"op", "onError"}))

C30_Witness ==
    /\ ropts.hasOnRetry
    /\ rpc = "done"
    /\ rresult.kind = "rejected"
    /\ ropts.baseDelay = Given(100)
    /\ Len(OnRetryCalls(rlog)) = 3
    /\ OnRetryCalls(rlog)[3] = Ev("onRetry", 3, 400, 3)

----------------------------------------------------------------------------
(* Properties of waitForStatus as a whole                                   *)

\* C27: a waitForStatus call never makes more than maxAttempts + 1 status
\* checks, and when every status check settles and every timer fires the
\* call settles (resolves or rejects), whatever the checks return.
C27_WaitTerminatesWithinBudget ==
    /\ [](StatusChecks(wlog) <= wargs.maxAttempts + 1)
    /\ (wpc # "idle") ~> (wpc = "done" /\ wresult.kind \in {"resolved", "rejected"})

C27_Witness ==
    /\ wpc = "done"
    /\ wargs.maxAttempts = 3
    /\ wargs.timeoutMs = 0
    /\ StatusChecks(wlog) = 4
    /\ wresult.kind = "resolved"

----------------------------------------------------------------------------
(* Properties of waitForStatus calls running side by side                   *)

\* the responses to call c's own checks inside its loop that changed the
\* status: response i differs from response i - 1
OwnChanges(c) ==
    {i \in 2..Len(Responses(c.log)) :
        /\ i <= c.args.maxAttempts
        /\ Responses(c.log)[i - 1].new # Responses(c.log)[i].new}

\* the responses to call c's own checks inside its loop that were not terminal
OwnNonTerminal(c) ==
    {i \in 1..Len(Responses(c.log)) :
        /\ i <= c.args.maxAttempts
        /\ ~IsTerminal(c.args.targetStatuses, Responses(c.log)[i].new)}

\* C29: with several waitForStatus calls in progress on one checker, under
\* every interleaving, each call's status-changed notifications are exactly
\* the changes between its own consecutive responses, its attempt count is
\* the number of its own non-terminal responses, it times out only on its own
\* time limit and elapsed time, and it settles with its own last response or
\* the error of its own last check.
C29_ConcurrentWaitsDoNotInterfere ==
    \A p \in CallIds :
        LET c == calls[p]
            R == Responses(c.log)
        IN  /\ Len(StatusChanges(c.log)) = Cardinality(OwnChanges(c))
            /\ \A i \in OwnChanges(c) :
                  \E j \in 1..Len(c.log) :
                      c.log[j] = WEv("status_change", i, R[i - 1].new, R[i].new, 0)
            /\ c.attempts = Cardinality(OwnNonTerminal(c))
            /\ c.result.kind = "resolved"
               => c.result.resp = [id |-> Len(R), status |-> R[Len(R)].new]
            /\ c.result = WRejected(timeoutError)
               => (/\ c.args.timeoutMs > 0
                   /\ \E j \in 1..Len(c.log), t \in 0..now :
                         /\ t > c.args.timeoutMs
                         /\ t <= now - c.startTime
                         /\ c.log[j] = TimeoutEv(c.args, c.attempts, t))
            /\ (c.result.kind = "rejected" /\ c.result # WRejected(timeoutError))
               => (/\ c.result.error.id = StatusChecks(c.log)
                   /\ c.log[Len(c.log)] = WEv("status_error", StatusChecks(c.log),
                                              "null", "null", 0))

C29_Witness ==
    /\ calls[1].args.messageId = calls[2].args.messageId
    /\ calls[1].startTime = calls[2].startTime
    /\ calls[1].pc = "done"
    /\ calls[1].result = WResolved([id |-> 2, status |-> "sent"])
    /\ StatusChanges(calls[1].log) = <<WEv("status_change", 2, "processing", "sent", 0)>>
    /\ calls[2].pc = "final"
    /\ calls[2].lastStatus = "scheduled"

----------------------------------------------------------------------------
(* Properties of the LoopSdk constructor                                    *)

\* C26: new LoopSdk with enableConversations: true and a webhook.secretKey
\* does not throw, and getWebhookMiddleware() on that SDK returns a
\* middleware function.
C26_ConversationsWithWebhookConstructs ==
    (sdk.state # "none" /\ sdk.enableConversations /\ secretKey # "")
    => (/\ sdk.state = "constructed"
        /\ gotMiddleware # NotCalled => gotMiddleware.kind = "returned")

----------------------------------------------------------------------------
(* Properties of the Express middleware                                     *)

\* the request was a verified message_inbound webhook for which onMessage
\* returned a response object, and its handling is over
HandlerResponded ==
    /\ mwOptions.via = "handleLoopWebhook"
    /\ mwOptions.onMessage = "returns-response"
    /\ \E i \in 1..Len(mwlog) : mwlog[i] = MwCall("onMessage", "message_inbound")
    /\ ~mwpending.waiting

\* C25: with handleLoopWebhook, when onMessage returned a response object for
\* a verified message_inbound webhook, that object is the body of the HTTP
\* response of the request.
C25_HandlerResponseIsTheResponseBody ==
    HandlerResponded => res = ResJson(200, JsonHandlerResponse)

----------------------------------------------------------------------------
(* Properties of the conversation service                                   *)

\* the send or the delivery wait of the sendMessage call failed with `error`
ConvFailedWith(error) ==
    /\ cpc = "done"
    /\ convlog # <<>>
    /\ convlog[Len(convlog)] = Emit("error", [error |-> error])

ConvErrors ==
    {o.err : o \in {x \in ConvSendOutcomes : ~x.ok}}
        \cup {o.err : o \in {x \in ConvWaitOutcomes : ~x.ok}}

\* C24: sendMessage of the conversation service never rejects: whenever the
\* send or the delivery wait failed, whatever listeners are registered, an
\* error notification was emitted and the call resolved with success false,
\* messageId '', errorCode the LoopMessageError's code (500 for any other
\* error) and errorMessage the error's message.
C24_SendMessageNeverRejects ==
    /\ cresult.kind # "rejected"
    /\ \A e \in ConvErrors :
          ConvFailedWith(e)
          => (/\ cresult.kind = "resolved"
              /\ cresult.value.success = FALSE
              /\ cresult.value.messageId = ""
              /\ cresult.value.errorCode
                    = (IF e.cls = "LoopMessageError" THEN e.code ELSE Num(500))
              /\ Truthy(e.message) => cresult.value.errorMessage = e.message)

----------------------------------------------------------------------------
(* Properties of the defaults of the retry engine                           *)

\* C31: a call of retryWithExponentialBackoff without the nonRetryableErrors
\* option treats 400, 401, 403 and 404 as non-retryable: when the first
\* invocation failed with one of these codes the call is over and the
\* operation was invoked exactly once.
C31_DefaultSetStopsOnClientErrors ==
    \A c \in NonRetryableStatuses :
        (/\ rpc # "idle"
         /\ ~ropts.nonRetryableErrors.given
         /\ lastError.id = 1
         /\ FailedWithCode(c))
        => (/\ rpc = "done"
            /\ Invocations(rlog) = 1)


----------------------------------------------------------------------------
(* Properties of the classification of transport failures                   *)

\* get / post went through the retry engine and rejected with the classified
\* form of a transport failure that carried no HTTP response
ClassifiedNoResponse ==
    /\ hpc = "done"
    /\ ShouldRetryOf(hreq)
    /\ hresult.kind = "rejected"
    /\ ~lastError.response.has
    /\ hresult.error.of = lastError.id

----------------------------------------------------------------------------
(* Properties of the failure notifications of parseWebhook                  *)

FailureNotifications == {"signature_error", "webhook_parse_error", "webhook_invalid"}

\* the failure notification that matches the failure of the last call
MatchingFailure ==
    IF verifySignature(secretKey, whcall.body, whcall.signature).error # NoError
    THEN "signature_error"
    ELSE IF ~JSONParse(whcall.body).ok
    THEN "webhook_parse_error"
    ELSE "webhook_invalid"

\* C33: a failing parseWebhook call emits exactly one failure notification,
\* and it is the one that matches the failure: signature_error for a missing
\* or wrong signature, webhook_parse_error for a body that is no JSON,
\* webhook_invalid for a JSON body without type or timestamp.
C33_OneMatchingFailureNotification ==
    (secretKey # "" /\ whresult.kind = "threw")
        => LET failures == EmitsNamed(whlog, FailureNotifications)
           IN  /\ Len(failures) = 1
               /\ failures[1].name = MatchingFailure


----------------------------------------------------------------------------
(* WebhookHandler with a listener of the caller: handler.on(name, listener) *)
(* and handler.parseWebhook(body, signature).  emit() calls the listeners   *)
(* synchronously, so what a listener throws is thrown by the emit call.     *)

\* the notifications a caller listens to: payload types and 'webhook'
SubscriberNames == {"message_inbound", "message_sent", "webhook"}

\* what the listener does: it returns ("none"), or throws a SyntaxError (a
\* JSON.parse of its own failed), a LoopMessageError or a plain Error
SubscriberThrows == {"none", "SyntaxError", "LoopMessageError", "Error"}

SubscriberError(throws) ==
    CASE throws = "SyntaxError" ->
            MkError("SyntaxError", "SyntaxError", Undef, Undef,
                    Str("Unexpected token in passthrough"), Undef, FALSE, NoResponse)
      [] throws = "LoopMessageError" ->
            LoopMessageError(Str("reply failed"), Num(500), Undef)
      [] OTHER ->
            MkError("Error", "Error", Undef, Undef, Str("listener failed"), Undef,
                    FALSE, NoResponse)

\* the catch block of parseWebhook for an error thrown inside its try block
ParseCatch(error) ==
    IF error.cls = "SyntaxError"
    THEN [log |-> <<Emit("webhook_parse_error", [error |-> error])>>,
          result |-> Threw(invalidParamError("webhook", WEBHOOK_INVALID_JSON))]
    ELSE IF error.cls = "LoopMessageError"
    THEN [log |-> <<Emit("webhook_invalid", [error |-> error])>>,
          result |-> Threw(error)]
    ELSE [log |-> <<Emit("error", [error |-> error])>>,
          result |-> Threw(error)]

\* parseWebhook of a handler with listener sub.  The three payload emits are
\* the last entries of the log of a call that returns: a listener of the
\* payload type throws in the first of them, one of 'webhook' in the third.
parseWebhookSubscribed(key, body, signature, sub) ==
    LET call == parseWebhook(key, body, signature)
        payload == call.result.payload
    IN  IF \/ call.result.kind # "returned"
           \/ sub.throws = "none"
           \/ sub.name \notin {payload.type.s, "webhook"}
        THEN call
        ELSE LET reached == IF sub.name = payload.type.s
                            THEN SubSeq(call.log, 1, Len(call.log) - 2)
                            ELSE call.log
                 caught == ParseCatch(SubscriberError(sub.throws))
             IN  [log |-> reached \o caught.log, result |-> caught.result]

\* handler.on(name, listener)
HandlerOn ==
    /\ subscriber = NoSubscriber
    /\ \E name \in SubscriberNames, throws \in SubscriberThrows :
          subscriber' = [name |-> name, throws |-> throws]
    /\ UNCHANGED <<sdk, secretKey, gotMiddleware, sdkListeners, whcall, whlog, sdklog,
                   received, whresult>>
    /\ UNCHANGED <<retryVars, httpVars, waitVars, sendVars, concVars, mwVars, convVars>>

\* handler.parseWebhook(body, signature)
HandlerParseWebhook ==
    /\ secretKey # ""
    /\ \E body \in Bodies, signature \in Signatures :
          LET call == parseWebhookSubscribed(secretKey, body, signature, subscriber)
          IN  /\ whcall' = [body |-> body, signature |-> signature]
              /\ whlog' = call.log
              /\ whresult' = call.result
    /\ UNCHANGED <<sdk, secretKey, gotMiddleware, sdkListeners, sdklog, received,
                   subscriber>>
    /\ UNCHANGED <<retryVars, httpVars, waitVars, sendVars, concVars, mwVars, convVars>>

\* new WebhookHandler({ webhookSecretKey: 'whsec-1' }), used without a LoopSdk
InitSubscriber ==
    /\ RetryIdle
    /\ HttpIdle
    /\ axiosBuild = "coded"
    /\ WaitIdle
    /\ ConcIdle
    /\ MiddlewareIdle
    /\ ConvIdle
    /\ SendIdle
    /\ sdk = NoSdk
    /\ secretKey = MiddlewareKey
    /\ HookFresh

NextSubscriber == HandlerOn \/ HandlerParseWebhook

SpecSubscriber == InitSubscriber /\ [][NextSubscriber]_vars

----------------------------------------------------------------------------
(* Properties of parseWebhook with throwing listeners                       *)

\* the body of the last call is JSON with type and timestamp
ValidPayload ==
    LET parsed == JSONParse(whcall.body)
    IN  /\ parsed.ok
        /\ parsed.value.json = "object"
        /\ Truthy(parsed.value.type)
        /\ Truthy(parsed.value.timestamp)

\* C34: parseWebhook throws the 'invalid JSON' error and emits
\* webhook_parse_error only when the body itself fails JSON.parse; whatever a
\* listener throws while the payload notifications are dispatched, the call
\* reports no malformed body and emits no webhook_invalid for a valid payload.
C34_ListenerFailureIsNotBodyFailure ==
    /\ (\/ whresult = Threw(invalidParamError("webhook", WEBHOOK_INVALID_JSON))
        \/ Len(EmitsNamed(whlog, {"webhook_parse_error"})) > 0)
           => ~JSONParse(whcall.body).ok
    /\ ValidPayload => Len(EmitsNamed(whlog, {"webhook_invalid"})) = 0


----------------------------------------------------------------------------
(* Properties of the Express middleware                                     *)

MwCalls(k) == SelectSeq(mwlog, LAMBDA x : x.k = k)

\* the text the middleware hands to parseWebhook for request r
VerifiedBody(r) == IF r.parsed THEN JSONStringify(r.raw) ELSE r.raw

\* the loop-signature header of r is missing or is not the HMAC of its body
BadSignature(r) ==
    \/ ~SigTruthy(r.signature)
    \/ r.signature # HmacSha256Hex(MiddlewareKey, VerifiedBody(r))

\* a request reached the middleware, and the middleware has no path option
\* or the request is for its path
HandledRequest ==
    /\ mwreq # NoMiddlewareRequest
    /\ mwOptions.path = "" \/ mwreq.path = mwOptions.path

\* the catch block ran: onError was called, or by default the response is 400
TookErrorPath ==
    IF mwOptions.onError
    THEN Len(MwCalls("onError")) = 1 /\ ~res.headersSent
    ELSE res = ResJson(400, JsonInvalidWebhook)

\* C35: for a request whose loop-signature header is missing or does not
\* match the HMAC of the body the middleware never invokes onWebhook, takes
\* the error path (onError, or by default a 400 response), and does not call
\* next().
C35_BadSignatureTakesErrorPath ==
    (mwreq # NoMiddlewareRequest /\ BadSignature(mwreq))
        => /\ Len(MwCalls("onWebhook")) = 0
           /\ TookErrorPath
           /\ Len(MwCalls("next")) = 0

\* C35 (amended): the same for every request the middleware handles; a
\* request for another path than the path option is handed to next() with no
\* verification, no onWebhook call and no response.
C35_HandledBadSignatureTakesErrorPath ==
    /\ (HandledRequest /\ BadSignature(mwreq))
           => /\ Len(MwCalls("onWebhook")) = 0
              /\ TookErrorPath
              /\ Len(MwCalls("next")) = 0
    /\ (mwreq # NoMiddlewareRequest /\ ~HandledRequest)
           => /\ mwlog = <<MwCall("next", "")>>
              /\ res = FreshRes

C35_Witness ==
    /\ HandledRequest
    /\ SigTruthy(mwreq.signature)
    /\ mwreq.signature.enc = "hex"
    /\ BadSignature(mwreq)
    /\ Truthy(JSONParse(mwreq.raw).value.alert_type)
    /\ mwOptions.onWebhook = "responds"
    /\ res.status = 400


\* the payload of the request the middleware handled: JSON with type and
\* timestamp
MiddlewarePayloadValid ==
    LET parsed == JSONParse(VerifiedBody(mwreq))
    IN  /\ parsed.ok
        /\ parsed.value.json = "object"
        /\ Truthy(parsed.value.type)
        /\ Truthy(parsed.value.timestamp)

\* C36: for every request with a valid signature whose payload has type and
\* timestamp, with or without an alert_type field, a middleware created with
\* an onWebhook callback invokes that callback exactly once.
C36_ValidWebhookReachesCallbackOnce ==
    (/\ HandledRequest
     /\ ~BadSignature(mwreq)
     /\ MiddlewarePayloadValid
     /\ mwOptions.onWebhook # "none")
        => Len(MwCalls("onWebhook")) = 1


----------------------------------------------------------------------------
(* Properties of the conversation service's status tracking                 *)

\* C37: for an outbound message the service emits messageDelivered at most
\* once, however the polls of the tracking interval and the waitForDelivery
\* wait of sendMessage interleave.
C37_DeliveredAtMostOnce ==
    Len(EmitsNamed(convlog, {"messageDelivered"})) <= 1

\* C38: the tracking started by sendMessage always eventually stops polling:
\* once the interval is set it is eventually cleared and removed from the
\* tracking map, whatever the status source answers and with or without
\* deliveryTimeoutMs.
C38_TrackingEventuallyStops ==
    tracker.interval ~> ~tracker.interval

\* C39: when the send API call succeeded, the result sendMessage resolves
\* with carries the id of the message, also when the delivery wait fails.
C39_ResultCarriesMessageId ==
    (/\ cpc = "done"
     /\ cresult.kind = "resolved"
     /\ cmessage.messageId # "")
        => cresult.value.messageId = cmessage.messageId

\* C40: in every statusChanged notification `previous` is the status the
\* message had before the update and `status` the one it has after it.
C40_PreviousIsTheStatusBefore ==
    [][\A i \in (Len(convlog) + 1)..Len(convlog') :
          convlog'[i].name = "statusChanged"
              => /\ convlog'[i].data.previous = cmessage.status
                 /\ convlog'[i].data.status = cmessage'.status]_vars

====
